---------------------------- MODULE Spec2Model ----------------------------
(***************************************************************************)
(* A model of the crawl-and-synchronisation engine of ehdb: the Importer,  *)
(* the ReplacedMarker, the Retry executor, the gallery list pager, the     *)
(* scheduler's run lock and the torrent passes.  Every component has a     *)
(* specification of its own (SpecImport, SpecMark, ...) over the shared    *)
(* store; the variables a specification does not use stay at their idle    *)
(* value.                                                                  *)
(***************************************************************************)
EXTENDS Integers, Sequences, FiniteSets, TLC

VARIABLES
    gallery,    \* the gallery table: a function gid -> row, its domain the stored gids
    torrent,    \* the torrent table: a set of rows, keyed by (id, gid)
    imp,        \* the running Importer.Import call
    mk,         \* what the ReplacedMarker has done so far
    rt,         \* the running Retry call
    pg,         \* the running GalleryCrawler.fetchPages call
    listing,    \* the upstream listing the running crawler pages through
    cancelled,  \* whether the run's context has been cancelled
    sched,      \* the scheduler: the run lock and the cron-triggered closures
    tp,         \* what the torrent passes have done so far
    bt,         \* the running batched metadata loop
    tsync,      \* the running TorrentCrawler.Sync call
    run         \* the running orchestrator: GallerySync, Resync, Fetch, ImportAll

vars == <<gallery, torrent, imp, mk, rt, pg, listing, cancelled, sched, tp, bt, tsync, run>>

-----------------------------------------------------------------------------
(* Bounds of the model *)

\* gids are 1..MaxGid
MaxGid == 2
\* an Import call gets a metadata list of 0..MaxList records
MaxList == 2

Gids == 1..MaxGid

-----------------------------------------------------------------------------
(* The gallery table *)

\* root_gid INTEGER DEFAULT NULL
NULL == -1

\* The columns of a gallery row that the crawler reads or writes.  data stands
\* for the metadata columns an insert or update copies from the record (token,
\* title, category, tags, ...).
GalleryRow(posted, data, removed, replaced, root_gid, bytorrent) ==
    [posted |-> posted, data |-> data, removed |-> removed,
     replaced |-> replaced, root_gid |-> root_gid, bytorrent |-> bytorrent]

EmptyGallery == [g \in {} |-> GalleryRow(0, "", FALSE, FALSE, NULL, FALSE)]

\* f with the value at key k set to v, k added to the domain when absent
Put(f, k, v) == [x \in DOMAIN f \cup {k} |-> IF x = k THEN v ELSE f[x]]

-----------------------------------------------------------------------------
(* strconv.ParseInt(s, 10, 64) on a string given as a tuple of characters *)

Digits == <<"0", "1", "2", "3", "4", "5", "6", "7", "8", "9">>

IsDigit(c) == \E i \in 1..10 : Digits[i] = c

DigitVal(c) == (CHOOSE i \in 1..10 : Digits[i] = c) - 1

RECURSIVE ParseDigits(_, _)
ParseDigits(s, acc) ==
    IF s = <<>> THEN acc
    ELSE ParseDigits(Tail(s), acc * 10 + DigitVal(Head(s)))

\* the error dropped: the zero value for a string that is no integer
ParseIntIgnoringError(s) ==
    IF s # <<>> /\ \A i \in 1..Len(s) : IsDigit(s[i])
    THEN [ok |-> TRUE, val |-> ParseDigits(s, 0)]
    ELSE [ok |-> TRUE, val |-> 0]

\* [ok, val]: ok = FALSE is ParseInt's error (empty, or a character that is no
\* digit after an optional sign)
ParseInt(s) ==
    LET signed == s # <<>> /\ Head(s) \in {"+", "-"}
        body == IF signed THEN Tail(s) ELSE s
    IN  IF body = <<>> \/ \E i \in 1..Len(body) : ~IsDigit(body[i])
        THEN [ok |-> FALSE, val |-> 0]
        ELSE [ok |-> TRUE,
              val |-> IF signed /\ Head(s) = "-" THEN 0 - ParseDigits(body, 0)
                      ELSE ParseDigits(body, 0)]

-----------------------------------------------------------------------------
(* Importer.Import *)

\* the posted strings the metadata endpoint is taken to return
PostedStrs == {<<"1">>, <<"2">>, <<"3">>, <<"1", "x">>}

\* database.GalleryMetadata: gid, posted (a string), the other metadata, error
Metadata ==
    [gid : Gids, posted : PostedStrs, data : {"a", "b"}, error : {""}]
    \cup [gid : Gids, posted : {<<"2">>}, data : {"a"}, error : {"e"}]

NoMetadata == [gid |-> 0, posted |-> <<>>, data |-> "", error |-> ""]

ImpIdle ==
    [pc |-> "idle", force |-> FALSE, n |-> 0, idx |-> 0, existing |-> <<>>,
     imported |-> 0, cur |-> NoMetadata, outcome |-> "", rejected |-> 0,
     unwritten |-> 0, stats |-> FALSE, ret |-> "", loadErr |-> FALSE]

\* loadGalleries: gid -> stored posted (epoch seconds) of every stored gallery
loadGalleries(store) == [g \in DOMAIN store |-> store[g].posted]

\* the condition of the else-if branch that updates an existing gallery
ShouldUpdateStale(force, postedInt, existingPosted) ==
    force \/ postedInt >= existingPosted

ShouldUpdate(force, postedInt, existingPosted) ==
    force \/ postedInt > existingPosted

\* insertGallery: [ok, store].  The INSERT fails when the store rejects it
\* (dbOk = FALSE) or when the primary key gid is already stored.
insertGallery(store, md, posted, dbOk) ==
    IF ~dbOk \/ md.gid \in DOMAIN store
    THEN [ok |-> FALSE, store |-> store]
    ELSE [ok |-> TRUE,
          store |-> Put(store, md.gid,
                        GalleryRow(posted, md.data, FALSE, FALSE, NULL, FALSE))]

\* an update that writes the row anew, as insertGallery would
updateGalleryAsNewRow(store, md, posted, dbOk) ==
    IF ~dbOk THEN [ok |-> FALSE, store |-> store]
    ELSE [ok |-> TRUE,
          store |-> IF md.gid \in DOMAIN store
                    THEN Put(store, md.gid,
                             GalleryRow(posted, md.data, FALSE, FALSE, NULL, FALSE))
                    ELSE store]

\* updateGallery: [ok, store].  The UPDATE sets the metadata columns, posted
\* and bytorrent = false of the row with this gid, if there is one.
updateGallery(store, md, posted, dbOk) ==
    IF ~dbOk THEN [ok |-> FALSE, store |-> store]
    ELSE [ok |-> TRUE,
          store |-> IF md.gid \in DOMAIN store
                    THEN [store EXCEPT ![md.gid].posted = posted,
                                       ![md.gid].data = md.data,
                                       ![md.gid].bytorrent = FALSE]
                    ELSE store]

\* what the loop does after a failed insert or update: log and continue
AfterWriteFailureAbort(outcome) == "abort"

AfterWriteFailure(outcome) == "continue"

\* One iteration of Import's loop over metadataList: [store, outcome].
ImportOne(store, existing, md, force, dbOk) ==
    LET p == ParseInt(md.posted) IN
    IF md.error # "" THEN [store |-> store, outcome |-> "skip_error"]
    ELSE IF ~p.ok THEN [store |-> store, outcome |-> "skip_parse"]
    ELSE IF md.gid \notin DOMAIN existing
    THEN LET r == insertGallery(store, md, p.val, dbOk) IN
         [store |-> r.store,
          outcome |-> IF r.ok THEN "inserted" ELSE "insert_failed"]
    ELSE IF ShouldUpdate(force, p.val, existing[md.gid])
    THEN LET r == updateGallery(store, md, p.val, dbOk) IN
         [store |-> r.store,
          outcome |-> IF r.ok THEN "updated" ELSE "update_failed"]
    ELSE [store |-> store, outcome |-> "stale"]

\* an Import that goes on with an empty snapshot when the read failed
AfterLoadFailureIgnored(n) == "continue"

\* if err != nil { return fmt.Errorf("load galleries: %w", err) }
AfterLoadFailure(n) == "return"

\* Import is called with a list of n records and a force flag; it starts by
\* reading the stored gids and posted times, and a failure of that read ends
\* the call with an error.
ImportStart ==
    /\ imp.pc = "idle"
    /\ \E n \in 0..MaxList, force \in BOOLEAN, loadOk \in BOOLEAN :
          imp' = IF loadOk
                 THEN [ImpIdle EXCEPT !.pc = "loop", !.force = force, !.n = n,
                                      !.existing = loadGalleries(gallery)]
                 ELSE IF AfterLoadFailure(n) = "return"
                 THEN [ImpIdle EXCEPT !.pc = "done", !.force = force, !.n = n,
                                      !.ret = "error", !.loadErr = TRUE]
                 ELSE [ImpIdle EXCEPT !.pc = "loop", !.force = force, !.n = n,
                                      !.existing = loadGalleries(EmptyGallery),
                                      !.loadErr = TRUE]
    /\ UNCHANGED <<gallery, torrent, mk, rt, pg, listing, cancelled, sched, tp, bt, tsync, run>>

\* a snapshot read again before every record
SnapshotRefreshed(existing, store) == loadGalleries(store)

\* existingGalleries is read once, before the loop, and only read in it
Snapshot(existing, store) == existing

\* The loop body for the next record of the list.  The list is read in order
\* and never looked ahead, so the record is drawn when it is processed.
ImportRecord ==
    /\ imp.pc = "loop"
    /\ imp.idx < imp.n
    /\ \E md \in Metadata, dbOk \in BOOLEAN :
          LET r == ImportOne(gallery, Snapshot(imp.existing, gallery), md, imp.force, dbOk)
              wrote == r.outcome \in {"inserted", "updated"}
              failed == r.outcome \in {"insert_failed", "update_failed"}
          IN  /\ gallery' = r.store
              /\ imp' = IF failed /\ AfterWriteFailure(r.outcome) = "abort"
                        THEN [imp EXCEPT !.pc = "done", !.ret = "error",
                                         !.cur = md, !.outcome = r.outcome,
                                         !.rejected = @ + 1]
                        ELSE [imp EXCEPT !.idx = @ + 1,
                                         !.imported = IF wrote THEN @ + 1 ELSE @,
                                         !.rejected = IF failed THEN @ + 1 ELSE @,
                                         !.unwritten =
                                             IF r.outcome \in {"skip_error", "skip_parse", "stale"}
                                             THEN @ + 1 ELSE @,
                                         !.cur = md, !.outcome = r.outcome]
    /\ UNCHANGED <<torrent, mk, rt, pg, listing, cancelled, sched, tp, bt, tsync, run>>

\* After the loop: the statistics refresh when something was imported (its
\* failure is logged only), and return nil.
ImportFinish ==
    /\ imp.pc = "loop"
    /\ imp.idx = imp.n
    /\ \E refreshOk \in BOOLEAN :
          imp' = [imp EXCEPT !.pc = "done", !.ret = "ok",
                             !.stats = (imp.imported > 0 /\ refreshOk)]
    /\ UNCHANGED <<gallery, torrent, mk, rt, pg, listing, cancelled, sched, tp, bt, tsync, run>>

\* The call has returned; the next call may start.
ImportReturn ==
    /\ imp.pc = "done"
    /\ imp' = ImpIdle
    /\ UNCHANGED <<gallery, torrent, mk, rt, pg, listing, cancelled, sched, tp, bt, tsync, run>>

-----------------------------------------------------------------------------
(* Idle values of the other components *)

\* a Retry call that is not running; no error
NoErr == <<>>

RtIdle ==
    [pc |-> "idle", cfg |-> 0, max |-> 0, ban |-> FALSE, i |-> 0, lastErr |-> NoErr,
     sleepFor |-> 0, result |-> "", wrapped |-> NoErr, reported |-> 0,
     calls |-> 0, out |-> NoErr, sleeps |-> <<>>, bans |-> 0, banMsgs |-> 0,
     streak |-> 0]

\* no run of the marker yet: the runs, the version of the last run and of the
\* one before, the flags after the first run
MkIdle == [runs |-> 0, last |-> "", prev |-> "", first |-> <<>>]
PgIdle ==
    [pc |-> "idle", lastPosted |-> 0, retryTimes |-> 0, wait |-> FALSE, next |-> 0,
     page |-> 0, allItems |-> <<>>, ret |-> "", requests |-> 0, failed |-> 0,
     fetched |-> <<>>]

\* the scheduled workflows and the positions of a job's closure: blocked in
\* s.mu.Lock(), in the workflow, after it (the deferred Unlock is pending)
Workflows == {"gallery", "torrent", "resync"}
JobPcs == {"lock", "run", "unlock"}

\* a scheduler with nothing registered and no job started
SchedIdle ==
    [mu |-> FALSE, enabled |-> [w \in Workflows |-> FALSE],
     jobs |-> [k \in Workflows \X JobPcs |-> 0], failed |-> FALSE]

\* no torrent page crawled yet: the error of the last pass, the
\* <<hash, root>> pairs that passes ending without error have listed (and how
\* many such passes, up to 2), and the pairs a page listed under two ids
TpIdle == [err |-> FALSE, seen |-> <<>>, dup |-> {}]

\* no batched metadata loop running
BtIdle == [pc |-> "idle"]

\* no TorrentCrawler.Sync call running
TsIdle == [pc |-> "idle"]

\* no orchestrator running
RunIdle == [pc |-> "idle"]

-----------------------------------------------------------------------------
(* The Importer's specification: the store starts empty or holding rows    *)
(* earlier runs and the other workflows have left.                         *)

ImportInitRows ==
    {GalleryRow(p, "a", f, f, IF f THEN 1 ELSE NULL, f) :
        p \in {1, 2}, f \in BOOLEAN}

ImportInitStores ==
    UNION {[D -> ImportInitRows] : D \in SUBSET Gids}

InitImport ==
    /\ gallery \in ImportInitStores
    /\ torrent = {}
    /\ imp = ImpIdle
    /\ mk = MkIdle
    /\ rt = RtIdle
    /\ pg = PgIdle
    /\ listing = <<>>
    /\ cancelled = FALSE
    /\ bt = BtIdle
    /\ tsync = TsIdle
    /\ run = RunIdle
    /\ sched = SchedIdle
    /\ tp = TpIdle

NextImport == ImportStart \/ ImportRecord \/ ImportFinish \/ ImportReturn

SpecImport == InitImport /\ [][NextImport]_vars

-----------------------------------------------------------------------------
(* Claims about Importer.Import *)

\* a step of ImportRecord that went on to the next record
RecordStep == imp.pc = "loop" /\ imp'.pc = "loop" /\ imp'.idx = imp.idx + 1

\* the record a step processed is valid: no error field, posted parses
ValidRecord(md) == md.error = "" /\ ParseInt(md.posted).ok

\* C1: staleness guard.  When Import is called with one valid record for a gid
\* that is stored with posted = T1: with force = false and the record's posted
\* T0 <= T1 the step leaves the whole store unchanged; with force = true (and
\* the store accepting the update) the row afterwards holds the record's
\* metadata and posted = T0, whatever T0 and T1 are.
C1_StalenessGuard ==
    [][(RecordStep /\ imp.n = 1 /\ ValidRecord(imp'.cur)
            /\ imp'.cur.gid \in DOMAIN gallery)
         => LET md == imp'.cur
                g == md.gid
                T0 == ParseInt(md.posted).val
            IN  /\ (~imp.force /\ T0 <= gallery[g].posted) => gallery' = gallery
                /\ (imp.force /\ imp'.outcome # "update_failed")
                      => gallery' = [gallery EXCEPT ![g].posted = T0,
                                                    ![g].data = md.data,
                                                    ![g].bytorrent = FALSE]
      ]_vars

\* C1's case: a one-record import without force met a stored entry with a
\* later posted time and left it alone.
C1_Witness ==
    /\ imp.pc = "loop" /\ imp.n = 1 /\ imp.idx = 1 /\ ~imp.force
    /\ imp.outcome = "stale"
    /\ imp.cur.gid \in DOMAIN gallery
    /\ ParseInt(imp.cur.posted).val < gallery[imp.cur.gid].posted
    /\ imp.cur.data # gallery[imp.cur.gid].data

\* C2: non-regression.  While an Import without force runs, no step lowers the
\* stored posted time of any gid (and no gid disappears).
C2_PostedNeverDecreases ==
    [][(imp.pc = "loop" /\ ~imp.force)
         => \A g \in DOMAIN gallery :
               g \in DOMAIN gallery' /\ gallery'[g].posted >= gallery[g].posted
      ]_vars

\* C10: partial-failure isolation.  Every record the loop writes is in the
\* store after its step; and when a call ends in which every record was valid
\* and due for a write and the store rejected exactly one of them, the call
\* has processed all n records, counted the other n - 1 as imported and
\* returned success.
C10_PartialFailureIsolation ==
    [][/\ (RecordStep /\ imp'.outcome \in {"inserted", "updated"})
            => /\ imp'.cur.gid \in DOMAIN gallery'
               /\ gallery'[imp'.cur.gid].posted = ParseInt(imp'.cur.posted).val
               /\ gallery'[imp'.cur.gid].data = imp'.cur.data
               /\ imp'.imported = imp.imported + 1
       /\ (RecordStep /\ imp'.outcome \notin {"inserted", "updated"})
            => imp'.imported = imp.imported
       /\ (imp'.pc = "done" /\ imp'.rejected = 1 /\ imp'.unwritten = 0)
            => /\ imp'.ret = "ok"
               /\ imp'.idx = imp'.n
               /\ imp'.imported = imp'.n - 1
      ]_vars

\* C10's case: a call of two or more records ended after the store rejected
\* one record and a later record was still written.
C10_Witness ==
    /\ imp.pc = "done" /\ imp.ret = "ok" /\ imp.n >= 2
    /\ imp.rejected = 1 /\ imp.unwritten = 0
    /\ imp.imported = imp.n - 1
    /\ imp.outcome \in {"inserted", "updated"}

\* the text is a decimal integer: digits after an optional sign
IsIntegerText(s) ==
    LET body == IF s # <<>> /\ Head(s) \in {"+", "-"} THEN Tail(s) ELSE s
    IN  body # <<>> /\ \A i \in 1..Len(body) : body[i] \in {Digits[d] : d \in 1..10}

\* C16: a record with an error field or with a posted text that is no integer
\* causes no store write and is not counted, and the loop goes on to the next
\* record; a step that changes the store does so from a record without error
\* whose posted text is an integer, and changes that record's gid only.
C16_ValidityFilter ==
    [][(imp.pc = "loop" /\ imp.idx < imp.n /\ imp' # imp) =>
          LET md == imp'.cur
              valid == md.error = "" /\ IsIntegerText(md.posted)
          IN  /\ ~valid => /\ gallery' = gallery
                           /\ imp'.imported = imp.imported
                           /\ imp'.pc = "loop" /\ imp'.idx = imp.idx + 1
              /\ gallery' # gallery =>
                    /\ valid
                    /\ md.gid \in DOMAIN gallery'
                    /\ \A g \in DOMAIN gallery' \ {md.gid} :
                          g \in DOMAIN gallery /\ gallery'[g] = gallery[g]
      ]_vars

\* C16's case: the first of two records had an unparseable posted text for a
\* stored gid and was skipped, the second is still to come.
C16_Witness ==
    /\ imp.pc = "loop" /\ imp.n = 2 /\ imp.idx = 1
    /\ imp.outcome = "skip_parse"
    /\ imp.cur.error = "" /\ ~IsIntegerText(imp.cur.posted)
    /\ imp.cur.gid \in DOMAIN gallery /\ imp.imported = 0

\* C23: when the read of the stored galleries fails at the start of Import,
\* the call returns an error without entering the loop: no record is inserted
\* or updated, nothing is counted as imported and the statistics are not
\* refreshed.
C23_LoadFailureFatal ==
    [][imp'.loadErr =>
          /\ gallery' = gallery
          /\ imp'.pc = "done" /\ imp'.ret = "error"
          /\ imp'.idx = 0 /\ imp'.imported = 0 /\ ~imp'.stats
      ]_vars

\* C23's case: the read failed for a list of two records over a store that
\* lacks a gid
C23_Witness ==
    /\ imp.loadErr /\ imp.pc = "done" /\ imp.n = 2
    /\ DOMAIN gallery # Gids

\* C28: the loop never changes the snapshot read at the start of the call.
\* For a valid record whose gid the snapshot lacks: when the store lacks the
\* gid too, the record is inserted (or the store rejects the insert); when the
\* store holds the gid, written earlier in the same call, the record is again
\* tried as an insert, rejected, counted and skipped, and the stored row stays
\* as it was, with force = true too.
C28_SnapshotReadOnce ==
    [][(imp.pc = "loop" /\ imp.idx < imp.n /\ imp' # imp) =>
          LET md == imp'.cur IN
          /\ imp'.existing = imp.existing
          /\ (ValidRecord(md) /\ md.gid \notin DOMAIN imp.existing) =>
                IF md.gid \in DOMAIN gallery
                THEN /\ imp'.outcome = "insert_failed"
                     /\ gallery' = gallery
                     /\ imp'.rejected = imp.rejected + 1
                     /\ imp'.imported = imp.imported
                     /\ imp'.pc = "loop" /\ imp'.idx = imp.idx + 1
                ELSE /\ imp'.outcome \in {"inserted", "insert_failed"}
                     /\ imp'.outcome = "inserted" =>
                           /\ md.gid \in DOMAIN gallery'
                           /\ gallery'[md.gid].data = md.data
                           /\ gallery'[md.gid].posted = ParseInt(md.posted).val
      ]_vars

\* C28's case: a forced Import met a gid for the second time; the second
\* record, with other data and a later posted time, was rejected and the row
\* holds the first record's data
C28_Witness ==
    /\ imp.pc = "loop" /\ imp.force /\ imp.idx = 2 /\ imp.imported = 1
    /\ imp.outcome = "insert_failed"
    /\ imp.cur.gid \in DOMAIN gallery /\ imp.cur.gid \notin DOMAIN imp.existing
    /\ ValidRecord(imp.cur)
    /\ gallery[imp.cur.gid].data # imp.cur.data
    /\ gallery[imp.cur.gid].posted < ParseInt(imp.cur.posted).val

\* C29: no step of Import removes an entry; a step changes no entry other
\* than the one of the record it processed; and when it changes a stored
\* entry, that is an update, which keeps the entry's removed, replaced and
\* root_gid and leaves bytorrent = false.
C29_ImportFrame ==
    [][/\ DOMAIN gallery \subseteq DOMAIN gallery'
       /\ \A g \in DOMAIN gallery :
             gallery'[g] # gallery[g] =>
                /\ imp.pc = "loop" /\ g = imp'.cur.gid /\ imp'.outcome = "updated"
                /\ gallery'[g].removed = gallery[g].removed
                /\ gallery'[g].replaced = gallery[g].replaced
                /\ gallery'[g].root_gid = gallery[g].root_gid
                /\ gallery'[g].bytorrent = FALSE
      ]_vars

\* C29's case: an entry that was removed, replaced, with a root and found by
\* torrent has been updated; a second entry is stored beside it
C29_Witness ==
    /\ imp.pc = "loop" /\ imp.outcome = "updated"
    /\ DOMAIN gallery = Gids
    /\ gallery[imp.cur.gid].removed /\ gallery[imp.cur.gid].replaced
    /\ gallery[imp.cur.gid].root_gid = 1 /\ ~gallery[imp.cur.gid].bytorrent
    /\ gallery[imp.cur.gid].data = imp.cur.data
    /\ gallery[imp.cur.gid].posted = 3

-----------------------------------------------------------------------------
(* ReplacedMarker.MarkReplaced *)

\* the marker's runs the model follows
MaxMarkRuns == 2

\* COALESCE(root_gid, gid)
GroupId(store, g) ==
    IF store[g].root_gid = NULL THEN g ELSE store[g].root_gid

\* the rows of one group
Members(store, k) == {g \in DOMAIN store : GroupId(store, g) = k}

Groups(store) == {GroupId(store, g) : g \in DOMAIN store}

MaxOf(S) == CHOOSE m \in S : \A x \in S : x <= m

\* the same over the rows with replaced = true only
LatestGidsOfReplaced(store) ==
    {MaxOf({g \in Members(store, k) : store[g].replaced} \cup {0}) : k \in Groups(store)}

\* SELECT MAX(gid) FROM gallery GROUP BY COALESCE(root_gid, gid)
LatestGids(store) == {MaxOf(Members(store, k)) : k \in Groups(store)}

\* the rows the UPDATE of replaced_marker.go touches
MarkedRows(store) == {g \in DOMAIN store : store[g].root_gid # NULL}

\* replaced_marker.go: UPDATE gallery SET replaced = (gid is no group's
\* MAX(gid)) WHERE root_gid IS NOT NULL
MarkReplacedStore(store) ==
    [g \in DOMAIN store |->
        IF g \in MarkedRows(store)
        THEN [store[g] EXCEPT !.replaced = (g \notin LatestGids(store))]
        ELSE store[g]]

\* WITH latest_versions AS (SELECT COALESCE(root_gid, gid) AS group_id,
\* MAX(gid) AS max_gid ... GROUP BY ... HAVING COUNT(*) > 1)
LatestVersions(store) ==
    {[group_id |-> k, max_gid |-> MaxOf(Members(store, k))] :
        k \in {x \in Groups(store) : Cardinality(Members(store, x)) > 1}}

\* the other MarkReplaced: UPDATE gallery g SET replaced = (g.gid != lv.max_gid)
\* FROM latest_versions lv WHERE COALESCE(g.root_gid, g.gid) = lv.group_id
\* AND g.replaced != (g.gid != lv.max_gid)
MarkReplacedGroupedStore(store) ==
    [g \in DOMAIN store |->
        IF \E lv \in LatestVersions(store) :
              /\ GroupId(store, g) = lv.group_id
              /\ store[g].replaced # (g # lv.max_gid)
        THEN [store[g] EXCEPT !.replaced = ~store[g].replaced]
        ELSE store[g]]

\* the replaced flag of every stored gid
Flags(store) == [g \in DOMAIN store |-> store[g].replaced]

MarkDone(version) ==
    mk' = [runs |-> mk.runs + 1, last |-> version, prev |-> mk.last,
           first |-> IF mk.runs = 0 THEN Flags(gallery') ELSE mk.first]

\* MarkReplaced of replaced_marker.go (the query cannot fail half way: it is
\* one statement)
MarkReplaced ==
    /\ mk.runs < MaxMarkRuns
    /\ gallery' = MarkReplacedStore(gallery)
    /\ MarkDone("all")
    /\ UNCHANGED <<torrent, imp, rt, pg, listing, cancelled, sched, tp, bt, tsync, run>>

\* MarkReplaced with the latest_versions query
MarkReplacedGrouped ==
    /\ mk.runs < MaxMarkRuns
    /\ gallery' = MarkReplacedGroupedStore(gallery)
    /\ MarkDone("grouped")
    /\ UNCHANGED <<torrent, imp, rt, pg, listing, cancelled, sched, tp, bt, tsync, run>>

\* The marker runs on whatever the crawler and the migration have stored:
\* any rows, any root_gid, any replaced flag.
MarkGids == 1..(MaxGid + 1)

MarkInitRows ==
    {GalleryRow(1, "a", FALSE, rep, root, FALSE) :
        rep \in BOOLEAN, root \in MarkGids \cup {NULL}}

MarkInitStores == UNION {[D -> MarkInitRows] : D \in SUBSET MarkGids}

InitMark ==
    /\ gallery \in MarkInitStores
    /\ torrent = {}
    /\ imp = ImpIdle
    /\ mk = MkIdle
    /\ rt = RtIdle
    /\ pg = PgIdle
    /\ listing = <<>>
    /\ cancelled = FALSE
    /\ bt = BtIdle
    /\ tsync = TsIdle
    /\ run = RunIdle
    /\ sched = SchedIdle
    /\ tp = TpIdle

NextMark == MarkReplaced \/ MarkReplacedGrouped

SpecMark == InitMark /\ [][NextMark]_vars

(* Claims about MarkReplaced *)

\* every group has exactly one member that is not replaced, the one with the
\* largest gid
Consolidated(store) ==
    \A k \in Groups(store) :
        {g \in Members(store, k) : ~store[g].replaced} = {MaxOf(Members(store, k))}

\* C3: consolidation invariant.  Once MarkReplaced has run, every group (by
\* root_gid, or gid when root_gid is null) has exactly one member with
\* replaced = false, and it is the member with the maximum gid.
C3_ConsolidatedAfterMark == mk.runs > 0 => Consolidated(gallery)

\* the statement of a version of MarkReplaced
MarkStore(version, store) ==
    IF version = "all" THEN MarkReplacedStore(store) ELSE MarkReplacedGroupedStore(store)

\* the statement applied to the rows of group k only
MarkGroup(version, store, k) ==
    [g \in DOMAIN store |->
        IF GroupId(store, g) = k THEN MarkStore(version, store)[g] ELSE store[g]]

\* the groups marked one after the other in a given order
RECURSIVE MarkInOrder(_, _, _)
MarkInOrder(version, store, order) ==
    IF order = <<>> THEN store
    ELSE MarkInOrder(version, MarkGroup(version, store, Head(order)), Tail(order))

\* the orders of a set of groups
Orders(S) ==
    {o \in [1..Cardinality(S) -> S] : \A i, j \in 1..Cardinality(S) : o[i] = o[j] => i = j}

\* C17: a second run of the same MarkReplaced right after a first leaves every
\* replaced flag as the first run left it, whatever was stored before; and
\* every run's flags are those of marking the groups one by one in any order.
C17_MarkIdempotent ==
    [][/\ (mk.runs = 1 /\ mk'.runs = 2 /\ mk'.last = mk.last)
            => Flags(gallery') = Flags(gallery)
       /\ mk'.runs = mk.runs + 1
            => \A o \in Orders(Groups(gallery)) :
                  Flags(MarkInOrder(mk'.last, gallery, o)) = Flags(gallery')
      ]_vars

\* C17's case: the same version has run twice over a store with a group of two
\* or more and a row of its own, and the first run had changed a flag there
C17_Witness ==
    /\ mk.runs = 2 /\ mk.prev = mk.last
    /\ Flags(gallery) = mk.first
    /\ Cardinality(Groups(gallery)) >= 2
    /\ \E k \in Groups(gallery) : Cardinality(Members(gallery, k)) >= 2
    /\ \E g \in DOMAIN gallery : gallery[g].replaced

-----------------------------------------------------------------------------
(* Error messages and parseIPBanDuration *)

\* A message is a sequence of tokens; a token is a word (w) or a run of
\* digits (d, a tuple of characters).
W(s) == [w |-> s, d |-> <<>>]
N(ds) == [w |-> "", d |-> ds]

IsNum(t) == t.d # <<>>

\* strings.Contains(errMsg, "temporarily banned")
ContainsBanned(msg) == \E i \in 1..Len(msg) : msg[i] = W("temporarily banned")

\* `ban expires in (.+?)\)`: the tokens after the leftmost "ban expires in"
\* that a ")" follows after at least one token, up to the first such ")"
BanClause(msg) ==
    LET starts == {i \in 1..Len(msg) :
                      /\ msg[i] = W("ban expires in")
                      /\ \E j \in (i + 2)..Len(msg) : msg[j] = W(")")}
    IN  IF starts = {} THEN [found |-> FALSE, str |-> <<>>]
        ELSE LET i == CHOOSE x \in starts : \A y \in starts : x <= y
                 j == CHOOSE x \in (i + 2)..Len(msg) :
                         /\ msg[x] = W(")")
                         /\ \A y \in (i + 2)..(x - 1) : msg[y] # W(")")
             IN  [found |-> TRUE, str |-> SubSeq(msg, i + 1, j - 1)]

\* the same, taking the first number of the clause whatever word follows it
ComponentAnyUnit(str, unit) ==
    LET hits == {k \in 1..Len(str) : IsNum(str[k])}
    IN  IF hits = {} THEN 0
        ELSE ParseDigits(str[CHOOSE k \in hits : \A y \in hits : k <= y].d, 0)

\* `(\d+)\s+<unit>`: the number of the first digits token that a word starting
\* with the unit follows (hour/hours, ...); 0 when there is none
UnitWords(unit) == {unit, unit \o "s"}

Component(str, unit) ==
    LET hits == {k \in 1..(Len(str) - 1) :
                    IsNum(str[k]) /\ str[k + 1].w \in UnitWords(unit)}
    IN  IF hits = {} THEN 0
        ELSE ParseDigits(str[CHOOSE k \in hits : \A y \in hits : k <= y].d, 0)

\* [duration, isBan], the duration in seconds
parseIPBanDuration(msg) ==
    LET c == BanClause(msg)
        total == Component(c.str, "hour") * 3600 + Component(c.str, "minute") * 60
                 + Component(c.str, "second")
    IN  IF ~ContainsBanned(msg) \/ ~c.found \/ total <= 0
        THEN [duration |-> 0, isBan |-> FALSE]
        ELSE [duration |-> total, isBan |-> TRUE]

\* the errors the wrapped operation is taken to return
ErrStatus == <<W("unexpected status code: 503")>>
ErrBanMinute ==
    <<W("temporarily banned"), W("ban expires in"), N(<<"1">>), W("minute"), W(")")>>
ErrBanHourMinutes ==
    <<W("temporarily banned"), W("ban expires in"), N(<<"1">>), W("hour"), W("and"),
      N(<<"3", "0">>), W("minutes"), W(")")>>
ErrBanNoDuration == <<W("temporarily banned"), W("ban expires in"), W("a while"), W(")")>>

ErrMsgs == {ErrStatus, ErrBanMinute, ErrBanHourMinutes, ErrBanNoDuration}

-----------------------------------------------------------------------------
(* parseIPBanDuration over the messages upstream can send *)

\* the decimal digits of n
RECURSIVE ToDigits(_)
ToDigits(n) ==
    IF n < 10 THEN <<Digits[n + 1]>>
    ELSE ToDigits(n \div 10) \o <<Digits[(n % 10) + 1]>>

\* a component of the remaining time that the message does not mention
Absent == -1

BanHours == {Absent, 0, 1, 2}
BanMinutes == {Absent, 0, 30, 59}
BanSeconds == {Absent, 0, 43, 45}

\* "1 hour", "30 minutes", ...
Part(v, unit) ==
    IF v = Absent THEN <<>>
    ELSE <<N(ToDigits(v)), W(IF v = 1 THEN unit ELSE unit \o "s")>>

RECURSIVE JoinAnd(_)
JoinAnd(parts) ==
    IF parts = <<>> THEN <<>>
    ELSE IF Len(parts) = 1 THEN Head(parts)
    ELSE Head(parts) \o <<W("and")>> \o JoinAnd(Tail(parts))

\* the message of an error page: with or without the ban phrase, and with the
\* clause "(The ban expires in <parts>)", the clause without its closing
\* parenthesis, or no clause
BanMessage(phrase, clause, hours, minutes, seconds) ==
    LET parts == SelectSeq(<<Part(hours, "hour"), Part(minutes, "minute"),
                             Part(seconds, "second")>>, LAMBDA p : p # <<>>)
    IN  <<W("Your IP address has been")>>
        \o (IF phrase THEN <<W("temporarily banned")>> ELSE <<W("blocked")>>)
        \o (IF clause = "none" THEN <<>>
            ELSE <<W("(The"), W("ban expires in")>> \o JoinAnd(parts)
                 \o (IF clause = "closed" THEN <<W(")")>> ELSE <<>>))

\* parseIPBanDuration(err.Error()) is called on a message
ParseBanMessage ==
    /\ \E phrase \in BOOLEAN, clause \in {"closed", "open", "none"},
          hours \in BanHours, minutes \in BanMinutes, seconds \in BanSeconds :
          LET errMsg == BanMessage(phrase, clause, hours, minutes, seconds)
              r == parseIPBanDuration(errMsg)
          IN  rt' = [pc |-> "parsed", phrase |-> phrase, clause |-> clause,
                     hours |-> hours, minutes |-> minutes, seconds |-> seconds,
                     errMsg |-> errMsg, duration |-> r.duration, isBan |-> r.isBan]
    /\ UNCHANGED <<gallery, torrent, imp, mk, pg, listing, cancelled, sched, tp, bt, tsync, run>>

\* no message parsed yet
InitBanParse ==
    /\ gallery = EmptyGallery
    /\ torrent = {}
    /\ imp = ImpIdle
    /\ mk = MkIdle
    /\ rt = RtIdle
    /\ pg = PgIdle
    /\ listing = <<>>
    /\ cancelled = FALSE
    /\ bt = BtIdle
    /\ tsync = TsIdle
    /\ run = RunIdle
    /\ sched = SchedIdle
    /\ tp = TpIdle

NextBanParse == ParseBanMessage

SpecBanParse == InitBanParse /\ [][NextBanParse]_vars

(* Claims about parseIPBanDuration *)

Seconds(v, factor) == IF v = Absent THEN 0 ELSE v * factor

\* C19: for a message with the ban phrase and a closed "expires in" clause
\* whose components add up to more than nothing, the result is a ban of
\* hours*3600 + minutes*60 + seconds seconds, whichever components are there;
\* every other message, one without the ban phrase included, is no ban and
\* has no duration.
C19_BanDuration ==
    rt.pc = "parsed" =>
        LET total == Seconds(rt.hours, 3600) + Seconds(rt.minutes, 60)
                     + Seconds(rt.seconds, 1)
        IN  IF rt.phrase /\ rt.clause = "closed" /\ total > 0
            THEN rt.isBan /\ rt.duration = total
            ELSE ~rt.isBan /\ rt.duration = 0

\* C19's case: "... temporarily banned (The ban expires in 1 hour and 30
\* minutes )" parsed to 5400 seconds
C19_Witness ==
    /\ rt.pc = "parsed" /\ rt.phrase /\ rt.clause = "closed"
    /\ rt.hours = 1 /\ rt.minutes = 30 /\ rt.seconds = Absent
    /\ rt.isBan /\ rt.duration = 5400

-----------------------------------------------------------------------------
(* Retry / RetryVoid *)

\* cfg.MaxRetries is drawn from 0..MaxRetriesCfg
MaxRetriesCfg == 3
\* the ban suspensions of one Retry call the model follows
MaxBans == 2

\* maxRetries = 3 // fallback default
FallbackRetries == 3

\* maxRetries := cfg.MaxRetries; if maxRetries <= 0 { maxRetries = 3 }
EffectiveRetries(cfgMaxRetries) ==
    IF cfgMaxRetries <= 0 THEN FallbackRetries ELSE cfgMaxRetries

\* the state of a Retry call at its first attempt
RetryBegin(cfgMaxRetries, waitForIPUnban) ==
    [RtIdle EXCEPT !.pc = "call", !.cfg = cfgMaxRetries,
                   !.max = EffectiveRetries(cfgMaxRetries),
                   !.ban = waitForIPUnban]

\* the linear backoff after failed attempt i (0-based): (i+1)*5 seconds
BackoffConstant(i) == 5

Backoff(i) == (i + 1) * 5

\* the loop index after a ban suspension: i = -1, then the loop's i++
IndexAfterBanKept(i) == i + 1

IndexAfterBan(i) == 0

\* the extra seconds slept after a ban's remaining time
BanMargin == 10

\* One attempt: fn() is invoked and returns success or one of errs.
RetryCallWith(errs) ==
    /\ rt.pc = "call"
    /\ rt.i < rt.max
    /\ \E out \in errs \cup {NoErr} :
          LET b == parseIPBanDuration(out)
              base == [rt EXCEPT !.calls = @ + 1, !.out = out]
              fail == [base EXCEPT !.lastErr = out,
                                   !.banMsgs = IF b.isBan THEN @ + 1 ELSE @]
          IN  IF out = NoErr
              THEN rt' = [base EXCEPT !.pc = "ret", !.result = "ok"]
              ELSE IF rt.ban /\ b.isBan
              THEN /\ rt.bans < MaxBans
                   /\ rt' = [fail EXCEPT !.pc = "bansleep",
                                         !.sleepFor = b.duration + BanMargin,
                                         !.bans = @ + 1, !.streak = 0]
              ELSE IF rt.i < rt.max - 1
              THEN rt' = [fail EXCEPT !.pc = "backoff",
                                      !.sleepFor = Backoff(rt.i),
                                      !.sleeps = Append(@, Backoff(rt.i)),
                                      !.streak = @ + 1]
              ELSE rt' = [fail EXCEPT !.pc = "ret", !.result = "error",
                                      !.i = rt.i + 1, !.wrapped = fail.lastErr,
                                      !.reported = rt.max, !.streak = @ + 1]

\* time.Sleep of the backoff returns; the loop goes on with i + 1
RetryBackoffDoneStep ==
    /\ rt.pc = "backoff"
    /\ rt' = [rt EXCEPT !.pc = "call", !.i = @ + 1, !.sleepFor = 0]

\* time.Sleep of the ban suspension returns; the loop restarts
RetryBanSleepDoneStep ==
    /\ rt.pc = "bansleep"
    /\ rt' = [rt EXCEPT !.pc = "call", !.i = IndexAfterBan(rt.i), !.sleepFor = 0]

RetryStart ==
    /\ rt.pc = "idle"
    /\ \E m \in 0..MaxRetriesCfg, w \in BOOLEAN : rt' = RetryBegin(m, w)
    /\ UNCHANGED <<gallery, torrent, imp, mk, pg, listing, cancelled, sched, tp, bt, tsync, run>>

RetryCall ==
    /\ RetryCallWith(ErrMsgs)
    /\ UNCHANGED <<gallery, torrent, imp, mk, pg, listing, cancelled, sched, tp, bt, tsync, run>>

RetryBackoffDone ==
    /\ RetryBackoffDoneStep
    /\ UNCHANGED <<gallery, torrent, imp, mk, pg, listing, cancelled, sched, tp, bt, tsync, run>>

RetryBanSleepDone ==
    /\ RetryBanSleepDoneStep
    /\ UNCHANGED <<gallery, torrent, imp, mk, pg, listing, cancelled, sched, tp, bt, tsync, run>>

\* Retry has returned to its caller
RetryReturn ==
    /\ rt.pc = "ret"
    /\ rt' = RtIdle
    /\ UNCHANGED <<gallery, torrent, imp, mk, pg, listing, cancelled, sched, tp, bt, tsync, run>>

InitRetry ==
    /\ gallery = EmptyGallery
    /\ torrent = {}
    /\ imp = ImpIdle
    /\ mk = MkIdle
    /\ rt = RtIdle
    /\ pg = PgIdle
    /\ listing = <<>>
    /\ cancelled = FALSE
    /\ bt = BtIdle
    /\ tsync = TsIdle
    /\ run = RunIdle
    /\ sched = SchedIdle
    /\ tp = TpIdle

NextRetry ==
    RetryStart \/ RetryCall \/ RetryBackoffDone \/ RetryBanSleepDone \/ RetryReturn

SpecRetry == InitRetry /\ [][NextRetry]_vars

(* Claims about Retry *)

\* the backoff sleeps after failures 1..k
Backoffs(k) == [j \in 1..k |-> 5 * j]

RetryShape ==
    /\ rt.calls <= rt.cfg
    /\ rt.pc # "bansleep"
    /\ rt.pc = "call" => rt.calls < rt.cfg /\ rt.sleeps = Backoffs(rt.calls)
    /\ rt.pc = "backoff" =>
          /\ rt.calls < rt.cfg
          /\ rt.sleepFor = 5 * rt.calls
          /\ rt.sleeps = Backoffs(rt.calls)
    /\ (rt.pc = "ret" /\ rt.result = "ok") =>
          /\ rt.out = NoErr
          /\ rt.sleeps = Backoffs(rt.calls - 1)
    /\ (rt.pc = "ret" /\ rt.result = "error") =>
          /\ rt.calls = rt.cfg
          /\ rt.sleeps = Backoffs(rt.cfg - 1)
          /\ rt.out # NoErr
          /\ rt.wrapped = rt.out
          /\ rt.reported = rt.cfg

\* C4: with maxAttempts = n >= 1 and failures that never match the ban
\* pattern, fn is invoked at most n times and only while it has not succeeded;
\* the sleeps after failures 1..k (k < n) are 5, 10, ..., 5k seconds; a success
\* returns at once; the n-th failure returns, without a sleep, an error that
\* wraps the last error and reports n; once Retry has a result it only returns.
C4_BoundedRetry ==
    [][/\ (rt'.pc # "idle" /\ rt'.cfg >= 1 /\ rt'.banMsgs = 0) => RetryShape'
       /\ rt.pc = "ret" => rt'.pc = "idle"]_vars

C4_Witness ==
    /\ rt.pc = "ret" /\ rt.result = "error"
    /\ rt.cfg = 3 /\ rt.banMsgs = 0
    /\ rt.calls = 3 /\ rt.sleeps = <<5, 10>>
    /\ rt.wrapped = ErrStatus /\ rt.reported = 3

\* C5: with ban awareness on, a failure classified as a ban makes Retry sleep
\* the parsed duration plus 10 seconds and go on with attempt index 0; a
\* terminal error comes only after maxAttempts consecutive failures that are
\* not bans, so never while every failure is a ban.
C5_BanBudgetExempt ==
    [][rt.ban =>
         /\ (rt.pc = "call" /\ rt'.pc \notin {"call", "idle"}
               /\ parseIPBanDuration(rt'.out).isBan) =>
               /\ rt'.pc = "bansleep"
               /\ rt'.sleepFor = parseIPBanDuration(rt'.out).duration + 10
               /\ rt'.sleeps = rt.sleeps
         /\ (rt.pc = "bansleep" /\ rt'.pc # "bansleep") =>
               rt'.pc = "call" /\ rt'.i = 0 /\ rt'.i < rt'.max
         /\ (rt.pc = "call" /\ rt'.pc = "ret" /\ rt'.result = "error") =>
               /\ rt'.streak = rt'.max
               /\ rt'.banMsgs < rt'.calls]_vars

\* a ban after a failure: more calls than maxAttempts, then the terminal error
C5_Witness ==
    /\ rt.ban /\ rt.pc = "ret" /\ rt.result = "error"
    /\ rt.bans = MaxBans /\ rt.calls > rt.max + MaxBans

-----------------------------------------------------------------------------
(* GalleryCrawler.fetchPages *)

\* the items of the remote listing the model follows
MaxItems == 4
\* the items the listing returns per page
PageSize == 2

\* Posted is "2006-01-02 15:04" on one fixed day: <<hour, minute>>
PostedTimes == {<<0, m>> : m \in 1..MaxItems} \cup {<<24, 0>>}

\* time.Parse("2006-01-02 15:04", posted), then Unix(): seconds, or an error
\* when a field is out of range
parsePostedTime(posted) ==
    IF posted[1] \in 0..23 /\ posted[2] \in 0..59
    THEN [ok |-> TRUE, val |-> posted[1] * 3600 + posted[2] * 60]
    ELSE [ok |-> FALSE, val |-> 0]

\* the listing is newest first: parseable timestamps never increase
ReverseChronological(f) ==
    \A i, j \in DOMAIN f :
        (i < j /\ parsePostedTime(f[i]).ok /\ parsePostedTime(f[j]).ok)
            => parsePostedTime(f[i]).val >= parsePostedTime(f[j]).val

\* GalleryListItem; gids fall along the listing
Listings ==
    UNION {{[i \in 1..n |-> [Gid |-> n - i + 1, Posted |-> f[i]]] :
               f \in {g \in [1..n -> PostedTimes] : ReverseChronological(g)}} :
           n \in 0..MaxItems}

\* next := ""
NoCursor == 0

\* GetPages(next, expunged): the first page of the items after the cursor
GetPages(lst, next) ==
    LET rest == SelectSeq(lst, LAMBDA it : next = NoCursor \/ it.Gid < next)
    IN  SubSeq(rest, 1, IF Len(rest) < PageSize THEN Len(rest) ELSE PageSize)

NewerOrEqual(posted, lastPosted) == posted >= lastPosted

\* if posted > lastPosted
Newer(posted, lastPosted) == posted > lastPosted

\* the loop over the items of one page
RECURSIVE ScanPage(_, _, _, _)
ScanPage(items, k, lastPosted, acc) ==
    IF k > Len(items) THEN [allItems |-> acc, finish |-> FALSE]
    ELSE LET p == parsePostedTime(items[k].Posted)
         IN  IF ~p.ok THEN ScanPage(items, k + 1, lastPosted, acc)
             ELSE IF Newer(p.val, lastPosted)
             THEN ScanPage(items, k + 1, lastPosted, Append(acc, items[k]))
             ELSE [allItems |-> acc, finish |-> TRUE]

\* the high-water marks a run starts from
Marks == {0} \cup {parsePostedTime(p).val : p \in PostedTimes}

\* cfg.RetryTimes of the crawler
PagerRetryTimes == {1, 2}

\* the error GetPages is taken to return: a ban page, which is an ordinary
\* failure when WaitForIPUnban is off
PagerErrs == {ErrBanMinute}

\* fetchPages(expunged, lastPosted) is entered; the first Retry begins
PagerStart ==
    /\ pg.pc = "idle"
    /\ \E lastPosted \in Marks, r \in PagerRetryTimes, w \in BOOLEAN :
          /\ pg' = [PgIdle EXCEPT !.pc = "fetch", !.lastPosted = lastPosted,
                                  !.retryTimes = r, !.wait = w]
          /\ rt' = RetryBegin(r, w)
    /\ UNCHANGED <<gallery, torrent, imp, mk, listing, cancelled, sched, tp, bt, tsync, run>>

\* one invocation of GetPages under Retry
PagerAttempt ==
    /\ pg.pc = "fetch"
    /\ RetryCallWith(PagerErrs)
    /\ pg' = [pg EXCEPT !.requests = @ + 1,
                         !.failed = IF rt'.out = NoErr THEN @ ELSE @ + 1]
    /\ UNCHANGED <<gallery, torrent, imp, mk, listing, cancelled, sched, tp, bt, tsync, run>>

PagerBackoffDone ==
    /\ pg.pc = "fetch"
    /\ RetryBackoffDoneStep
    /\ UNCHANGED <<gallery, torrent, imp, mk, pg, listing, cancelled, sched, tp, bt, tsync, run>>

PagerBanSleepDone ==
    /\ pg.pc = "fetch"
    /\ RetryBanSleepDoneStep
    /\ UNCHANGED <<gallery, torrent, imp, mk, pg, listing, cancelled, sched, tp, bt, tsync, run>>

\* Retry has returned: the error is returned, or the page is scanned
PagerPage ==
    /\ pg.pc = "fetch"
    /\ rt.pc = "ret"
    /\ rt' = RtIdle
    /\ LET items == GetPages(listing, pg.next)
           scan == ScanPage(items, 1, pg.lastPosted, pg.allItems)
           got == [pg EXCEPT !.fetched = Append(@, pg.next)]
       IN  IF rt.result = "error"
           THEN pg' = [pg EXCEPT !.pc = "done", !.ret = "error", !.allItems = <<>>]
           ELSE IF Len(items) = 0
           THEN pg' = [got EXCEPT !.pc = "done", !.ret = "ok"]
           ELSE IF scan.finish
           THEN pg' = [got EXCEPT !.pc = "done", !.ret = "ok",
                                  !.allItems = scan.allItems]
           ELSE pg' = [got EXCEPT !.pc = "delay", !.allItems = scan.allItems,
                                  !.next = items[Len(items)].Gid, !.page = @ + 1]
    /\ UNCHANGED <<gallery, torrent, imp, mk, listing, cancelled, sched, tp, bt, tsync, run>>

\* time.Sleep(PageDelaySeconds) returns; the loop fetches the next page
PagerDelayDone ==
    /\ pg.pc = "delay"
    /\ pg' = [pg EXCEPT !.pc = "fetch"]
    /\ rt' = RetryBegin(pg.retryTimes, pg.wait)
    /\ UNCHANGED <<gallery, torrent, imp, mk, listing, cancelled, sched, tp, bt, tsync, run>>

\* fetchPages has returned to Sync
PagerReturn ==
    /\ pg.pc = "done"
    /\ pg' = PgIdle
    /\ cancelled' = FALSE
    /\ UNCHANGED <<gallery, torrent, imp, mk, rt, listing, sched, tp, bt, tsync, run>>

\* the context of the run is cancelled; no step of fetchPages or Retry reads it
Cancel ==
    /\ pg.pc \notin {"idle", "done"}
    /\ ~cancelled
    /\ cancelled' = TRUE
    /\ UNCHANGED <<gallery, torrent, imp, mk, rt, pg, listing, sched, tp, bt, tsync, run>>

InitPager ==
    /\ gallery = EmptyGallery
    /\ torrent = {}
    /\ imp = ImpIdle
    /\ mk = MkIdle
    /\ rt = RtIdle
    /\ pg = PgIdle
    /\ listing \in Listings
    /\ cancelled = FALSE
    /\ bt = BtIdle
    /\ tsync = TsIdle
    /\ run = RunIdle
    /\ sched = SchedIdle
    /\ tp = TpIdle

NextPager ==
    \/ PagerStart \/ PagerAttempt \/ PagerBackoffDone \/ PagerBanSleepDone
    \/ PagerPage \/ PagerDelayDone \/ PagerReturn \/ Cancel

SpecPager == InitPager /\ [][NextPager]_vars

(* Claims about fetchPages *)

StrictlyDecreasing(lst) ==
    /\ \A i \in DOMAIN lst : parsePostedTime(lst[i].Posted).ok
    /\ \A i, j \in DOMAIN lst :
          i < j => parsePostedTime(lst[i].Posted).val > parsePostedTime(lst[j].Posted).val

\* the cursors of the first p pages of the listing
PageCursors(lst, p) ==
    [j \in 1..p |-> IF j = 1 THEN NoCursor ELSE lst[(j - 1) * PageSize].Gid]

\* C6: over a listing with strictly decreasing timestamps and a mark equal to
\* the timestamp of item k, a run that ends without a fetch error returns
\* items 1..k-1 in listing order and has fetched the pages up to the one that
\* holds item k and none after it, one request per page besides the failed ones.
C6_PagerConverges ==
    \A k \in DOMAIN listing :
        (/\ StrictlyDecreasing(listing)
         /\ pg.pc = "done" /\ pg.ret = "ok"
         /\ pg.lastPosted = parsePostedTime(listing[k].Posted).val) =>
            /\ pg.allItems = SubSeq(listing, 1, k - 1)
            /\ pg.fetched = PageCursors(listing, (k + PageSize - 1) \div PageSize)
            /\ pg.requests = Len(pg.fetched) + pg.failed

C6_Witness ==
    /\ StrictlyDecreasing(listing) /\ Len(listing) = MaxItems
    /\ pg.pc = "done" /\ pg.ret = "ok"
    /\ pg.lastPosted = parsePostedTime(listing[PageSize + 1].Posted).val
    /\ Len(pg.allItems) = PageSize
    /\ pg.fetched = <<NoCursor, listing[PageSize].Gid>>
    /\ pg.requests = 2 /\ pg.failed = 0
\* the positions where a run is suspended: Retry's backoff sleep, its ban
\* suspension, the delay between pages
AtSuspension == rt.pc \in {"backoff", "bansleep"} \/ pg.pc = "delay"

\* C8: once the context is cancelled, a run that leaves a suspension point
\* (backoff sleep, ban suspension, page delay) aborts instead of going on to
\* another fetch.
C8_CancellationObserved ==
    [][(cancelled /\ AtSuspension /\ ~AtSuspension') =>
          (pg'.pc = "done" /\ pg'.ret = "cancelled" /\ pg'.requests = pg.requests)]_vars

-----------------------------------------------------------------------------
(* Scheduler *)

\* the closures of cron jobs alive at a time
MaxJobs == 3

Alive(jobs) ==
    LET RECURSIVE Sum(_)
        Sum(K) == IF K = {} THEN 0
                  ELSE LET k == CHOOSE x \in K : TRUE IN jobs[k] + Sum(K \ {k})
    IN  Sum(Workflows \X JobPcs)

Move(jobs, w, from, to) ==
    [jobs EXCEPT ![<<w, from>>] = @ - 1, ![<<w, to>>] = @ + 1]

MutexFreeAlways(mu) == TRUE

\* s.mu.Lock() returns only when the mutex is not held
MutexFree(mu) == ~mu

\* cron fires the job of an enabled workflow: its closure starts in a new
\* goroutine, whether or not an earlier one has returned
CronTrigger(w) ==
    /\ sched.enabled[w]
    /\ Alive(sched.jobs) < MaxJobs
    /\ sched' = [sched EXCEPT !.jobs[<<w, "lock">>] = @ + 1]
    /\ UNCHANGED <<gallery, torrent, imp, mk, rt, pg, listing, cancelled, tp, bt, tsync, run>>

\* s.mu.Lock()
JobLock(w) ==
    /\ sched.jobs[<<w, "lock">>] > 0
    /\ MutexFree(sched.mu)
    /\ sched' = [sched EXCEPT !.mu = TRUE, !.jobs = Move(@, w, "lock", "run")]
    /\ UNCHANGED <<gallery, torrent, imp, mk, rt, pg, listing, cancelled, tp, bt, tsync, run>>

\* the workflow returns, with an error (logged) or without
JobWorkflowDone(w) ==
    /\ sched.jobs[<<w, "run">>] > 0
    /\ \E err \in BOOLEAN :
          sched' = [sched EXCEPT !.failed = err, !.jobs = Move(@, w, "run", "unlock")]
    /\ UNCHANGED <<gallery, torrent, imp, mk, rt, pg, listing, cancelled, tp, bt, tsync, run>>

\* an unlock that is skipped when the workflow returned an error
HeldAfterUnlockOnError(failed) == failed

\* the deferred s.mu.Unlock() runs however the workflow returned
HeldAfterUnlock(failed) == FALSE

\* defer s.mu.Unlock(); the closure returns
JobUnlock(w) ==
    /\ sched.jobs[<<w, "unlock">>] > 0
    /\ sched' = [sched EXCEPT !.mu = HeldAfterUnlock(sched.failed),
                              !.jobs[<<w, "unlock">>] = @ - 1]
    /\ UNCHANGED <<gallery, torrent, imp, mk, rt, pg, listing, cancelled, tp, bt, tsync, run>>

\* after Start: the enabled workflows are registered
InitSched ==
    /\ gallery = EmptyGallery
    /\ torrent = {}
    /\ imp = ImpIdle
    /\ mk = MkIdle
    /\ rt = RtIdle
    /\ pg = PgIdle
    /\ listing = <<>>
    /\ cancelled = FALSE
    /\ bt = BtIdle
    /\ tsync = TsIdle
    /\ run = RunIdle
    /\ \E en \in [Workflows -> BOOLEAN] : sched = [SchedIdle EXCEPT !.enabled = en]
    /\ tp = TpIdle

NextSched ==
    \E w \in Workflows :
        CronTrigger(w) \/ JobLock(w) \/ JobWorkflowDone(w) \/ JobUnlock(w)

SpecSched == InitSched /\ [][NextSched]_vars

\* The scheduler with its scheduling: a workflow that runs returns and its
\* closure unlocks (weak fairness); a closure blocked in s.mu.Lock() gets the
\* mutex if it is released again and again (strong fairness: a sync.Mutex
\* hands the lock to a waiter that has been starved).
SpecSchedLive ==
    /\ SpecSched
    /\ \A w \in Workflows :
          /\ SF_vars(JobLock(w))
          /\ WF_vars(JobWorkflowDone(w))
          /\ WF_vars(JobUnlock(w))

(* Claims about the scheduler *)

\* the closures that are past s.mu.Lock() and have not unlocked
Executing ==
    LET RECURSIVE Sum(_)
        Sum(S) == IF S = {} THEN 0
                  ELSE LET w == CHOOSE x \in S : TRUE
                       IN  sched.jobs[<<w, "run">>] + sched.jobs[<<w, "unlock">>]
                           + Sum(S \ {w})
    IN  Sum(Workflows)

\* C7: whatever the order of cron triggers, re-triggers of a running workflow
\* included, at most one scheduled workflow is executing.
C7_RunMutualExclusion == Executing <= 1 /\ (Executing = 1 <=> sched.mu)

\* gallery sync runs while a second gallery trigger and a torrent trigger wait
C7_Witness ==
    /\ sched.jobs[<<"gallery", "run">>] = 1
    /\ sched.jobs[<<"gallery", "lock">>] = 1
    /\ sched.jobs[<<"torrent", "lock">>] = 1

\* C30: the closure that returns from its workflow, with or without an
\* error, leaves the mutex free; and, every workflow returning, a workflow with
\* a triggered closure waiting for the mutex gets to run.
C30_TriggeredRunsExecute ==
    /\ [][\A w \in Workflows :
            sched'.jobs[<<w, "unlock">>] < sched.jobs[<<w, "unlock">>] => ~sched'.mu]_vars
    /\ \A w \in Workflows :
          (sched.jobs[<<w, "lock">>] > 0) ~> (sched.jobs[<<w, "run">>] > 0)

\* C30's case: the torrent sync runs after a workflow that returned an error,
\* while a gallery sync triggered meanwhile waits
C30_Witness ==
    /\ sched.failed /\ sched.mu
    /\ sched.jobs[<<"torrent", "run">>] = 1
    /\ sched.jobs[<<"gallery", "lock">>] = 1
    /\ Executing = 1

-----------------------------------------------------------------------------
(* The batched metadata loops: GalleryCrawler.Sync, Resyncer.Resync,       *)
(* Fetcher.Fetch and TorrentCrawler.importMissingGalleries                  *)

\* the ids of a loop's list (at most MaxBatchItems), cut into batches of
\* BatchSize (25 in the source)
MaxBatchItems == 5
BatchSize == 2

BatchLoops == {"sync", "resync", "fetch", "missing"}

\* cfg.APIDelaySeconds
APIDelaySeconds == {1, 3}

\* c.retryTimes
BatchRetryTimes == {1, 2}

\* a slice whose end is not cut to the length of the list
BatchOfUnclamped(n, k) == [j \in 1..BatchSize |-> (k - 1) * BatchSize + j]

\* the number of batches of a list of n ids, and the ids of batch k
NumBatches(n) == (n + BatchSize - 1) \div BatchSize
BatchOf(n, k) ==
    [j \in 1..(IF k * BatchSize > n THEN n - (k - 1) * BatchSize ELSE BatchSize)
        |-> (k - 1) * BatchSize + j]

\* what GetMetadatas answers for a gid
MetadataOf(g) == [gid |-> g, posted |-> <<"2">>, data |-> "b", error |-> ""]
GetMetadatas(batch) == [j \in DOMAIN batch |-> MetadataOf(batch[j])]

\* the sleep after a batch: time.Sleep(APIDelaySeconds), 2 s, 1 s
BatchDelay(loop, apiDelay) ==
    CASE loop \in {"sync", "resync"} -> apiDelay
      [] loop = "fetch" -> 2
      [] loop = "missing" -> 1

\* the force flag of the loop's Import call (Sync: Offset != 0)
BatchForce(loop, offset) ==
    CASE loop = "sync" -> offset
      [] loop \in {"resync", "fetch"} -> TRUE
      [] loop = "missing" -> FALSE

\* importMissingGalleries calls Import only with a non-empty list
CallsImport(loop, mds) == loop # "missing" \/ Len(mds) > 0

\* a loop that ends at the first batch that failed
AfterBatchFailureAbort(i) == "abort"

\* if err != nil { logger.Error(...); continue }
AfterBatchFailure(i) == "continue"

\* Importer.Import over a list, the store's writes succeeding
RECURSIVE ImportList(_, _, _, _, _)
ImportList(store, existing, mds, force, k) ==
    IF k > Len(mds) THEN store
    ELSE ImportList(ImportOne(store, existing, mds[k], force, TRUE).store,
                    existing, mds, force, k + 1)

Import(store, mds, force) == ImportList(store, loadGalleries(store), mds, force, 1)

NotHanded == <<"none">>

\* the loop's position after batch bt.k: the next batch, or the Import call
AfterBatch(b) ==
    IF b.k < NumBatches(b.n)
    THEN [b EXCEPT !.pc = "call", !.k = @ + 1, !.attempt = 0]
    ELSE [b EXCEPT !.pc = "import"]

\* One of the four workflows reaches its batch loop with n ids.
BatchLoopStart ==
    /\ bt.pc = "idle"
    /\ \E loop \in BatchLoops, n \in 1..MaxBatchItems, retryTimes \in BatchRetryTimes,
          apiDelay \in APIDelaySeconds, offset \in BOOLEAN :
         /\ loop \in {"fetch", "missing"} => apiDelay = 1
         /\ loop # "sync" => ~offset
         /\ bt' = [pc |-> "call", loop |-> loop, n |-> n,
                   max |-> EffectiveRetries(retryTimes), delay |-> BatchDelay(loop, apiDelay),
                   force |-> BatchForce(loop, offset), k |-> 1, attempt |-> 0,
                   allMetadata |-> <<>>, log |-> <<>>, succeeded |-> {}, failed |-> {},
                   handed |-> NotHanded, batches |-> <<>>]
    /\ UNCHANGED <<gallery, torrent, imp, mk, rt, pg, listing, cancelled, sched, tp, tsync, run>>

\* An attempt of Retry(GetMetadatas) for batch bt.k.  A success appends the
\* batch's metadata and goes to the sleep; a failure goes to Retry's backoff,
\* or, the attempts used up, is logged and the loop continues.
BatchAttempt ==
    /\ bt.pc = "call"
    /\ \E ok \in BOOLEAN :
         LET called == [bt EXCEPT !.log = Append(@, [ev |-> "call", batch |-> bt.k, secs |-> 0]),
                                  !.batches = IF bt.attempt = 0
                                              THEN Append(@, BatchOf(bt.n, bt.k)) ELSE @]
         IN  bt' = IF ok
                   THEN [called EXCEPT !.pc = "delay",
                                       !.allMetadata = @ \o GetMetadatas(BatchOf(bt.n, bt.k)),
                                       !.succeeded = @ \cup {bt.k}]
                   ELSE IF bt.attempt < bt.max - 1
                   THEN [called EXCEPT !.pc = "backoff"]
                   ELSE IF AfterBatchFailure(bt.k) = "continue"
                   THEN AfterBatch([called EXCEPT !.failed = @ \cup {bt.k}])
                   ELSE [called EXCEPT !.pc = "import", !.failed = @ \cup {bt.k}]
    /\ UNCHANGED <<gallery, torrent, imp, mk, rt, pg, listing, cancelled, sched, tp, tsync, run>>

\* Retry's sleep between two attempts
BatchBackoffDone ==
    /\ bt.pc = "backoff"
    /\ bt' = [bt EXCEPT !.pc = "call", !.attempt = @ + 1,
                        !.log = Append(@, [ev |-> "backoff", batch |-> bt.k,
                                           secs |-> Backoff(bt.attempt)])]
    /\ UNCHANGED <<gallery, torrent, imp, mk, rt, pg, listing, cancelled, sched, tp, tsync, run>>

\* the sleep after a batch that succeeded
BatchDelayDone ==
    /\ bt.pc = "delay"
    /\ bt' = AfterBatch([bt EXCEPT !.log = Append(@, [ev |-> "delay", batch |-> bt.k,
                                                      secs |-> bt.delay])])
    /\ UNCHANGED <<gallery, torrent, imp, mk, rt, pg, listing, cancelled, sched, tp, tsync, run>>

\* importer.Import(ctx, allMetadata, force)
BatchImport ==
    /\ bt.pc = "import"
    /\ IF CallsImport(bt.loop, bt.allMetadata)
       THEN /\ gallery' = Import(gallery, bt.allMetadata, bt.force)
            /\ bt' = [bt EXCEPT !.pc = "done", !.handed = bt.allMetadata]
       ELSE /\ gallery' = gallery
            /\ bt' = [bt EXCEPT !.pc = "done"]
    /\ UNCHANGED <<torrent, imp, mk, rt, pg, listing, cancelled, sched, tp, tsync, run>>

InitBatch ==
    /\ gallery \in {EmptyGallery,
                    [g \in {1} |-> GalleryRow(3, "a", FALSE, FALSE, NULL, FALSE)]}
    /\ torrent = {}
    /\ imp = ImpIdle
    /\ mk = MkIdle
    /\ rt = RtIdle
    /\ pg = PgIdle
    /\ listing = <<>>
    /\ cancelled = FALSE
    /\ sched = SchedIdle
    /\ tp = TpIdle
    /\ bt = BtIdle
    /\ tsync = TsIdle
    /\ run = RunIdle

NextBatch ==
    BatchLoopStart \/ BatchAttempt \/ BatchBackoffDone \/ BatchDelayDone \/ BatchImport

SpecBatch == InitBatch /\ [][NextBatch]_vars

-----------------------------------------------------------------------------
(* The orchestrators' calls of the Importer: GalleryCrawler.Sync,          *)
(* Resyncer.Resync, Fetcher.Fetch                                          *)

\* cfg.Offset, in hours
Offsets == {0, 1, 0 - 1}

HourSeconds == 3600

\* the latest posted time of all stored entries
GetLastPostedOfAll(store, readOk) ==
    IF ~readOk \/ DOMAIN store = {} THEN [posted |-> 0, err |-> TRUE]
    ELSE [posted |-> MaxOf({store[g].posted : g \in DOMAIN store}), err |-> FALSE]

\* GetLastPosted: SELECT posted FROM gallery WHERE bytorrent = false ORDER BY
\* posted DESC LIMIT 1; a failed read and an empty result are errors
GetLastPosted(store, readOk) ==
    LET S == {store[g].posted : g \in {x \in DOMAIN store : ~store[x].bytorrent}}
    IN  IF ~readOk \/ S = {} THEN [posted |-> 0, err |-> TRUE]
        ELSE [posted |-> MaxOf(S), err |-> FALSE]

\* if c.cfg.Offset != 0 { lastPosted -= int64(c.cfg.Offset * 3600) }
ApplyOffset(lastPosted, offset) ==
    IF offset # 0 THEN lastPosted - offset * HourSeconds ELSE lastPosted

\* the gids a sweep or a list can hold
RunItems == {<<>>} \cup {<<g>> : g \in Gids}

\* GalleryCrawler.Sync starts: the last posted time is read (an error of the
\* read is logged and 0 taken) and the offset applied.
GallerySyncStart ==
    /\ run.pc = "idle"
    /\ \E offset \in Offsets, readOk \in BOOLEAN :
         LET last == GetLastPosted(gallery, readOk)
         IN  run' = [pc |-> "normal", wf |-> "sync", offset |-> offset,
                     readErr |-> last.err,
                     lastPosted |-> ApplyOffset(last.posted, offset),
                     sweeps |-> <<>>, allItems |-> <<>>, force |-> <<>>, ret |-> ""]
    /\ UNCHANGED <<gallery, torrent, imp, mk, rt, pg, listing, cancelled, sched, tp, bt, tsync>>

\* fetchPages(false, lastPosted), then fetchPages(true, lastPosted): an error
\* of a sweep ends the run; after the second, no items ends it too.
GallerySyncSweep ==
    /\ run.pc \in {"normal", "expunged"}
    /\ \E ok \in BOOLEAN, items \in RunItems :
         LET swept == [run EXCEPT !.sweeps = Append(@, [expunged |-> run.pc = "expunged",
                                                        lastPosted |-> run.lastPosted])]
             all == run.allItems \o items
         IN  run' = IF ~ok THEN [swept EXCEPT !.pc = "done", !.ret = "error"]
                    ELSE IF run.pc = "normal"
                    THEN [swept EXCEPT !.pc = "expunged", !.allItems = all]
                    ELSE IF Len(all) = 0
                    THEN [swept EXCEPT !.pc = "done", !.ret = "ok", !.allItems = all]
                    ELSE [swept EXCEPT !.pc = "import", !.allItems = all]
    /\ UNCHANGED <<gallery, torrent, imp, mk, rt, pg, listing, cancelled, sched, tp, bt, tsync>>

\* Resyncer.Resync and Fetcher.Fetch reach their Import call with a list
ListedStart ==
    /\ run.pc = "idle"
    /\ \E wf \in {"resync", "fetch"}, items \in RunItems \ {<<>>} :
         run' = [pc |-> "import", wf |-> wf, offset |-> 0, readErr |-> FALSE,
                 lastPosted |-> 0, sweeps |-> <<>>, allItems |-> items,
                 force |-> <<>>, ret |-> ""]
    /\ UNCHANGED <<gallery, torrent, imp, mk, rt, pg, listing, cancelled, sched, tp, bt, tsync>>

\* importer.Import(ctx, allMetadata, force) with the metadata of the items
OrchestratorImport ==
    /\ run.pc = "import"
    /\ LET force == BatchForce(run.wf, run.offset # 0)
       IN  /\ gallery' = Import(gallery, GetMetadatas(run.allItems), force)
           /\ run' = [run EXCEPT !.pc = "done", !.ret = "ok", !.force = <<force>>]
    /\ UNCHANGED <<torrent, imp, mk, rt, pg, listing, cancelled, sched, tp, bt, tsync>>

InitOrchestrator ==
    /\ gallery \in ImportInitStores
    /\ torrent = {}
    /\ imp = ImpIdle
    /\ mk = MkIdle
    /\ rt = RtIdle
    /\ pg = PgIdle
    /\ listing = <<>>
    /\ cancelled = FALSE
    /\ sched = SchedIdle
    /\ tp = TpIdle
    /\ bt = BtIdle
    /\ tsync = TsIdle
    /\ run = RunIdle

NextOrchestrator ==
    GallerySyncStart \/ GallerySyncSweep \/ ListedStart \/ OrchestratorImport

SpecOrchestrator == InitOrchestrator /\ [][NextOrchestrator]_vars

\* the largest posted time among the stored entries that satisfy flt, 0 when
\* there is none
LatestPosted(store, flt(_)) ==
    LET S == {store[g].posted : g \in {x \in DOMAIN store : flt(store[x])}}
    IN  IF S = {} THEN 0 ELSE MaxOf(S)

\* C26: GallerySync hands Import force = TRUE exactly when the offset is not 0,
\* Resync and Fetch always; both sweeps of a GallerySync run get one threshold,
\* the largest posted time among the stored entries with bytorrent = false
\* (0 when there is none or the read failed) minus offset * 3600.
C26_ForcePolicy ==
    run.pc # "idle" =>
       /\ run.force # <<>> =>
             run.force[1] = IF run.wf = "sync" THEN run.offset # 0 ELSE TRUE
       /\ run.wf = "sync" =>
             /\ \A j \in DOMAIN run.sweeps : run.sweeps[j].lastPosted = run.lastPosted
             /\ run.pc \in {"normal", "expunged"} =>
                   run.lastPosted =
                      (IF run.readErr THEN 0
                       ELSE LatestPosted(gallery, LAMBDA r : ~r.bytorrent))
                      - run.offset * HourSeconds

\* the statement with the largest posted time of all stored entries
C26_ThresholdIsStoredMaximum ==
    (run.pc \in {"normal", "expunged"} /\ ~run.readErr) =>
       run.lastPosted = LatestPosted(gallery, LAMBDA r : TRUE) - run.offset * HourSeconds

\* C26's case: a GallerySync with an offset of one hour swept twice below the
\* stored time of an entry not found by torrent and imported with force
C26_Witness ==
    /\ run.pc = "done" /\ run.wf = "sync" /\ run.offset = 1
    /\ Len(run.sweeps) = 2 /\ run.sweeps[2].expunged
    /\ run.sweeps[1].lastPosted = 2 - HourSeconds
    /\ run.force = <<TRUE>>

-----------------------------------------------------------------------------
(* utils.NormalizeTag on a tag given as a tuple of characters *)

\* the longest tag
MaxTagLen == 5

Tab == "\t"

\* the characters of the tags: letters in both cases, of a known shortcut (f)
\* and of none (b), the two kinds of white space, the colon
TagChars == {"F", "f", "B", "b", " ", Tab, ":"}

Tags == UNION {[1..n -> TagChars] : n \in 0..MaxTagLen}

\* the characters of a word
Chars(word) ==
    CASE word = "artist" -> <<"a", "r", "t", "i", "s", "t">>
      [] word = "character" -> <<"c", "h", "a", "r", "a", "c", "t", "e", "r">>
      [] word = "cosplayer" -> <<"c", "o", "s", "p", "l", "a", "y", "e", "r">>
      [] word = "female" -> <<"f", "e", "m", "a", "l", "e">>
      [] word = "group" -> <<"g", "r", "o", "u", "p">>
      [] word = "language" -> <<"l", "a", "n", "g", "u", "a", "g", "e">>
      [] word = "location" -> <<"l", "o", "c", "a", "t", "i", "o", "n">>
      [] word = "male" -> <<"m", "a", "l", "e">>
      [] word = "mixed" -> <<"m", "i", "x", "e", "d">>
      [] word = "other" -> <<"o", "t", "h", "e", "r">>
      [] word = "parody" -> <<"p", "a", "r", "o", "d", "y">>
      [] word = "reclass" -> <<"r", "e", "c", "l", "a", "s", "s">>

\* shortMap: shortcut -> namespace
shortMap ==
    (<<"a">> :> "artist") @@ (<<"c">> :> "character")
    @@ (<<"c", "h", "a", "r">> :> "character") @@ (<<"c", "o", "s">> :> "cosplayer")
    @@ (<<"f">> :> "female") @@ (<<"g">> :> "group")
    @@ (<<"c", "i", "r", "c", "l", "e">> :> "group") @@ (<<"l">> :> "language")
    @@ (<<"l", "a", "n", "g">> :> "language") @@ (<<"l", "o", "c">> :> "location")
    @@ (<<"m">> :> "male") @@ (<<"x">> :> "mixed") @@ (<<"o">> :> "other")
    @@ (<<"p">> :> "parody") @@ (<<"s", "e", "r", "i", "e", "s">> :> "parody")
    @@ (<<"r">> :> "reclass")

IsSpace(c) == c \in {" ", Tab}

\* a lower-casing that leaves every character as it is
LowerKept(c) == c

Lower(c) == CASE c = "F" -> "f" [] c = "B" -> "b" [] OTHER -> c

\* strings.ToLower
ToLower(s) == [j \in DOMAIN s |-> Lower(s[j])]

\* strings.TrimSpace
RECURSIVE TrimLeft(_)
TrimLeft(s) == IF s # <<>> /\ IsSpace(Head(s)) THEN TrimLeft(Tail(s)) ELSE s

RECURSIVE TrimRight(_)
TrimRight(s) ==
    IF s # <<>> /\ IsSpace(s[Len(s)]) THEN TrimRight(SubSeq(s, 1, Len(s) - 1)) ELSE s

TrimSpace(s) == TrimRight(TrimLeft(s))

\* strings.Fields: the maximal runs of characters that are not white space
RECURSIVE FieldsFrom(_, _, _)
FieldsFrom(s, word, fields) ==
    IF s = <<>> THEN (IF word = <<>> THEN fields ELSE Append(fields, word))
    ELSE IF IsSpace(Head(s))
    THEN FieldsFrom(Tail(s), <<>>, IF word = <<>> THEN fields ELSE Append(fields, word))
    ELSE FieldsFrom(Tail(s), Append(word, Head(s)), fields)

Fields(s) == FieldsFrom(s, <<>>, <<>>)

\* strings.Join(fields, " ")
RECURSIVE Join(_)
Join(fields) ==
    IF fields = <<>> THEN <<>>
    ELSE IF Len(fields) = 1 THEN fields[1]
    ELSE fields[1] \o <<" ">> \o Join(Tail(fields))

\* strings.Contains(tag, ":")
ContainsColon(s) == \E j \in DOMAIN s : s[j] = ":"

\* strings.SplitN(tag, ":", 2) of a tag that holds a colon
SplitN2(s) ==
    LET i == CHOOSE j \in DOMAIN s : s[j] = ":" /\ \A k \in 1..(j - 1) : s[k] # ":"
    IN  <<SubSeq(s, 1, i - 1), SubSeq(s, i + 1, Len(s))>>

NormalizeTag(tag) ==
    LET t == Join(Fields(ToLower(TrimSpace(tag))))
    IN  IF ContainsColon(t) /\ SplitN2(t)[1] \in DOMAIN shortMap
        THEN Chars(shortMap[SplitN2(t)[1]]) \o <<":">> \o SplitN2(t)[2]
        ELSE t

\* NormalizeTag is called with a tag
NormalizeTagCall ==
    /\ run.pc = "idle"
    /\ \E tag \in Tags :
         run' = [pc |-> "normalized", wf |-> "tag", tag |-> tag, out |-> NormalizeTag(tag)]
    /\ UNCHANGED <<gallery, torrent, imp, mk, rt, pg, listing, cancelled, sched, tp, bt, tsync>>

InitTag ==
    /\ gallery = EmptyGallery
    /\ torrent = {}
    /\ imp = ImpIdle
    /\ mk = MkIdle
    /\ rt = RtIdle
    /\ pg = PgIdle
    /\ listing = <<>>
    /\ cancelled = FALSE
    /\ sched = SchedIdle
    /\ tp = TpIdle
    /\ bt = BtIdle
    /\ tsync = TsIdle
    /\ run = RunIdle

NextTag == NormalizeTagCall

SpecTag == InitTag /\ [][NextTag]_vars

\* the characters of the tag from position j on, in lower case, every run of
\* white space between two words as one space, the others dropped
RECURSIVE CollapsedFrom(_, _)
CollapsedFrom(tag, j) ==
    IF j > Len(tag) THEN <<>>
    ELSE IF IsSpace(tag[j]) THEN CollapsedFrom(tag, j + 1)
    ELSE (IF j > 1 /\ IsSpace(tag[j - 1]) /\ \E k \in 1..(j - 1) : ~IsSpace(tag[k])
          THEN <<" ">> ELSE <<>>)
         \o <<Lower(tag[j])>> \o CollapsedFrom(tag, j + 1)

\* the positions of the colons of a tag
Colons(t) == {j \in DOMAIN t : t[j] = ":"}

\* the part of a tag before its first colon
FirstColon(t) == CHOOSE j \in Colons(t) : \A k \in Colons(t) : j <= k

NamespaceOf(t) == SubSeq(t, 1, FirstColon(t) - 1)

\* C21: NormalizeTag returns a value for every tag: the tag trimmed, in lower
\* case and with its white space collapsed, where a known shortcut before the
\* first colon is replaced by its namespace and everything else is kept
\* ('F:B' gives 'female:b', ' f:b ' gives 'female:b', 'b b' stays 'b b')
C21_NormalizeTag ==
    run.pc = "normalized" =>
      LET t == CollapsedFrom(run.tag, 1)
      IN  /\ run.out = NormalizeTag(run.tag)
          /\ \A j \in DOMAIN run.out : run.out[j] \notin {"F", "B", Tab}
          /\ run.out # <<>> => ~IsSpace(run.out[1]) /\ ~IsSpace(run.out[Len(run.out)])
          /\ \A j \in 1..(Len(run.out) - 1) : ~(run.out[j] = " " /\ run.out[j + 1] = " ")
          /\ IF Colons(t) # {} /\ NamespaceOf(t) \in DOMAIN shortMap
             THEN /\ Len(run.out) = Len(Chars(shortMap[NamespaceOf(t)])) + Len(t) - Len(NamespaceOf(t))
                  /\ \A j \in 1..Len(Chars(shortMap[NamespaceOf(t)])) :
                       run.out[j] = Chars(shortMap[NamespaceOf(t)])[j]
                  /\ \A j \in FirstColon(t)..Len(t) :
                       run.out[j + Len(run.out) - Len(t)] = t[j]
             ELSE run.out = t
          /\ run.tag = <<"F", ":", "B">> => run.out = <<"f", "e", "m", "a", "l", "e", ":", "b">>
          /\ run.tag = <<" ", "f", ":", "b", " ">> => run.out = <<"f", "e", "m", "a", "l", "e", ":", "b">>
          /\ run.tag = <<"b", " ", "b">> => run.out = run.tag
          /\ run.tag = <<"b", ":", "F">> => run.out = <<"b", ":", "f">>

\* C21 witness: a tag in upper case with white space around it and inside it
\* and the shortcut f before its first colon has been normalized
C21_Witness ==
    /\ run.pc = "normalized"
    /\ run.tag = <<Tab, "F", ":", "B", " ">>
    /\ run.out = <<"f", "e", "m", "a", "l", "e", ":", "b">>

-----------------------------------------------------------------------------
(* Torrent pages: TorrentCrawler.processTorrentsForGallery and
   TorrentImporter.processGallery *)

\* the torrents upstream lists
MaxTorrents == 2

TorrentIds == 1..MaxTorrents

\* [0-9a-f]{40}; a torrent's content never changes, and two torrents can carry
\* the same content
HashOf(id) == IF id <= 2 THEN "h1" ELSE "h2"

\* Hash == nil
NoHash == ""

\* database.Torrent
TorrentRow(id, gid, hash, expunged) ==
    [id |-> id, gid |-> gid, hash |-> hash, expunged |-> expunged]

\* the body of gallerytorrents.php: a banner or both, or the announce id and
\* the torrents listed, of which one may be expunged
TorrentPages ==
    {[kind |-> k, root |-> 0, listed |-> {}, expunged |-> {}] :
        k \in {"fetch error", "unavailable", "not found", "unavailable, not found",
               "no announce"}}
    \cup UNION {{[kind |-> "torrents", root |-> r, listed |-> L, expunged |-> E] :
                    r \in Gids, E \in {{}} \cup {{i} : i \in L}} :
                 L \in SUBSET TorrentIds}

\* the ids of a set in page order
RECURSIVE Ascending(_)
Ascending(S) ==
    IF S = {} THEN <<>>
    ELSE LET m == CHOOSE x \in S : \A y \in S : x <= y
         IN  <<m>> \o Ascending(S \ {m})

\* TorrentCrawler.parseTorrents: the pattern matches only non-expunged torrents
parseTorrents(page) ==
    LET ids == Ascending(page.listed \ page.expunged)
    IN  [k \in DOMAIN ids |-> TorrentRow(ids[k], page.root, HashOf(ids[k]), FALSE)]

\* TorrentImporter.parseTorrents: expunged torrents too, without a hash
parseTorrentsAll(page) ==
    LET ids == Ascending(page.listed)
    IN  [k \in DOMAIN ids |->
            IF ids[k] \in page.expunged
            THEN TorrentRow(ids[k], page.root, NoHash, TRUE)
            ELSE TorrentRow(ids[k], page.root, HashOf(ids[k]), FALSE)]

\* SELECT hash FROM torrent WHERE gid = $1 AND hash IS NOT NULL
getExistingTorrentHashes(rows, gid) ==
    {r.hash : r \in {x \in rows : x.gid = gid /\ x.hash # NoHash}}

containsString(existingHashes, hash) == hash \in existingHashes

\* if t.Hash != nil && !containsString(existingHashes, *t.Hash)
NewTorrents(torrents, existingHashes) ==
    SelectSeq(torrents,
              LAMBDA t : t.hash # NoHash /\ ~containsString(existingHashes, t.hash))

\* INSERT ... ON CONFLICT (id, gid) DO UPDATE
Upsert(rows, t) == {r \in rows : ~(r.id = t.id /\ r.gid = t.gid)} \cup {t}

\* saveTorrents: one statement per torrent; the statement at failAt fails and
\* ends the loop (0: none fails)
RECURSIVE saveTorrents(_, _, _, _)
saveTorrents(rows, new, k, failAt) ==
    IF k > Len(new) THEN [rows |-> rows, err |-> FALSE]
    ELSE IF k = failAt THEN [rows |-> rows, err |-> TRUE]
    ELSE saveTorrents(Upsert(rows, new[k]), new, k + 1, failAt)

\* the database failures of one pass over a page: of the read of the stored
\* hashes, of the second upsert, of the update of the entry
DbFaults(page) ==
    IF page.kind = "torrents" THEN {"none", "read", "save", "update"}
    ELSE {"none", "update"}

FailAt(db) == IF db = "save" THEN 2 ELSE 0

\* UPDATE gallery SET root_gid = $1 WHERE gid = $2
updateRootGid(store, gid, rootGid) ==
    IF gid \in DOMAIN store THEN [store EXCEPT ![gid].root_gid = rootGid] ELSE store

\* UPDATE gallery SET removed = true WHERE gid = $1
markGalleryRemoved(store, gid) ==
    IF gid \in DOMAIN store THEN [store EXCEPT ![gid].removed = TRUE] ELSE store

\* UPDATE gallery SET replaced = true WHERE root_gid = $1
markReplacedGalleries(store, rootGid) ==
    [g \in DOMAIN store |->
        IF store[g].root_gid = rootGid THEN [store[g] EXCEPT !.replaced = TRUE]
        ELSE store[g]]

\* the torrents of a page that carry a hash, by pass
Parsed(kind, page) ==
    IF kind = "sync" THEN parseTorrents(page) ELSE parseTorrentsAll(page)

\* the record of a pass: the pairs listed when it ended without error, the
\* pairs its page listed under two ids
Count(f, pair) == IF pair \in DOMAIN f THEN f[pair] ELSE 0

PassDone(kind, page, err) ==
    LET ts == IF page.kind = "torrents" THEN Parsed(kind, page) ELSE <<>>
        pairs == {<<ts[k].hash, ts[k].gid>> : k \in {j \in DOMAIN ts : ts[j].hash # NoHash}}
        twice == {<<ts[k].hash, ts[k].gid>> :
                     k \in {j \in DOMAIN ts : /\ ts[j].hash # NoHash
                                              /\ \E i \in DOMAIN ts :
                                                    i # j /\ ts[i].hash = ts[j].hash}}
        keys == IF err THEN DOMAIN tp.seen ELSE DOMAIN tp.seen \cup pairs
    IN  [err |-> err,
         seen |-> [p \in keys |->
                     IF ~err /\ p \in pairs /\ Count(tp.seen, p) < 2
                     THEN Count(tp.seen, p) + 1 ELSE Count(tp.seen, p)],
         dup |-> tp.dup \cup twice]

\* the banner found only on a page without the not-found banner
HasUnavailableOnly(page) == page.kind = "unavailable"

\* strings.Contains(bodyStr, "This gallery is currently unavailable")
HasUnavailable(page) == page.kind \in {"unavailable", "unavailable, not found"}

\* strings.Contains(bodyStr, "Gallery not found")
HasNotFound(page) == page.kind \in {"not found", "unavailable, not found"}

\* TorrentCrawler.processTorrentsForGallery: [gallery, torrent, err]
processTorrentsForGallery(store, rows, gid, page, db) ==
    LET torrents == parseTorrents(page)
        new == NewTorrents(torrents, getExistingTorrentHashes(rows, page.root))
        saved == saveTorrents(rows, new, 1, FailAt(db))
    IN  IF page.kind # "torrents"
        THEN [gallery |-> store, torrent |-> rows, err |-> page.kind = "fetch error"]
        ELSE IF Len(torrents) > 0 /\ db = "read"
        THEN [gallery |-> store, torrent |-> rows, err |-> TRUE]
        ELSE IF saved.err
        THEN [gallery |-> store, torrent |-> saved.rows, err |-> TRUE]
        ELSE [gallery |-> IF db = "update" THEN store
                          ELSE updateRootGid(store, gid, page.root),
              torrent |-> saved.rows, err |-> FALSE]

\* TorrentImporter.processGallery: [gallery, torrent, err]; old says that the
\* entry's posted time is more than 7 days back
processGallery(store, rows, gid, page, db, old) ==
    LET torrents == parseTorrentsAll(page)
        new == NewTorrents(torrents, getExistingTorrentHashes(rows, page.root))
        saved == saveTorrents(rows, new, 1, FailAt(db))
        marked == markReplacedGalleries(store, page.root)
    IN  IF page.kind = "fetch error"
        THEN [gallery |-> store, torrent |-> rows, err |-> TRUE]
        ELSE IF HasUnavailable(page) \/ (HasNotFound(page) /\ old)
        THEN [gallery |-> IF db = "update" THEN store
                          ELSE markGalleryRemoved(store, gid),
              torrent |-> rows, err |-> db = "update"]
        ELSE IF HasNotFound(page)
        THEN [gallery |-> store, torrent |-> rows, err |-> TRUE]
        ELSE IF page.kind = "no announce"
        THEN [gallery |-> IF db = "update" THEN store
                          ELSE updateRootGid(store, gid, gid),
              torrent |-> rows, err |-> db = "update"]
        ELSE IF Len(torrents) > 0 /\ db = "read"
        THEN [gallery |-> store, torrent |-> rows, err |-> TRUE]
        ELSE IF saved.err
        THEN [gallery |-> store, torrent |-> saved.rows, err |-> TRUE]
        ELSE [gallery |-> IF db = "update" THEN marked
                          ELSE updateRootGid(marked, gid, page.root),
              torrent |-> saved.rows, err |-> db = "update"]

\* TorrentCrawler.processTorrentsForGallery(gid) of a TorrentSync run
ProcessTorrentsForGallery ==
    \E gid \in DOMAIN gallery, page \in TorrentPages :
      \E db \in IF page.kind = "torrents" THEN DbFaults(page) ELSE {"none"} :
        LET r == processTorrentsForGallery(gallery, torrent, gid, page, db)
        IN  /\ gallery' = r.gallery
            /\ torrent' = r.torrent
            /\ tp' = PassDone("sync", page, r.err)
            /\ UNCHANGED <<imp, mk, rt, pg, listing, cancelled, sched, bt, tsync, run>>

\* TorrentImporter.processGallery(gid, posted) of an ImportAll run, for an
\* entry the run selected (root_gid IS NULL AND removed = false)
ProcessGallery ==
    \E gid \in {g \in DOMAIN gallery : gallery[g].root_gid = NULL /\ ~gallery[g].removed},
       page \in TorrentPages :
      \E db \in DbFaults(page),
         old \in IF HasNotFound(page) THEN BOOLEAN ELSE {FALSE} :
        LET r == processGallery(gallery, torrent, gid, page, db, old)
        IN  /\ gallery' = r.gallery
            /\ torrent' = r.torrent
            /\ tp' = PassDone("backfill", page, r.err)
            /\ UNCHANGED <<imp, mk, rt, pg, listing, cancelled, sched, bt, tsync, run>>

\* the entries as Import leaves them, no torrent stored
InitTorrent ==
    /\ gallery = [g \in Gids |-> GalleryRow(1, "a", FALSE, FALSE, NULL, FALSE)]
    /\ torrent = {}
    /\ imp = ImpIdle
    /\ mk = MkIdle
    /\ rt = RtIdle
    /\ pg = PgIdle
    /\ listing = <<>>
    /\ cancelled = FALSE
    /\ bt = BtIdle
    /\ tsync = TsIdle
    /\ run = RunIdle
    /\ sched = SchedIdle
    /\ tp = TpIdle

NextTorrent == ProcessTorrentsForGallery \/ ProcessGallery

SpecTorrent == InitTorrent /\ [][NextTorrent]_vars

(* One pass over one entry's torrent page, from the stores a run can meet *)

\* the entries: root_gid unset or set by an earlier pass, none removed
EntryStores ==
    [Gids -> {GalleryRow(1, "a", FALSE, rep, root, FALSE) :
                 rep \in BOOLEAN, root \in {NULL, 1}}]

\* the torrents stored before the pass
EntryTorrents == {{}, {TorrentRow(1, 1, HashOf(1), FALSE)}}

\* processGallery(gid, posted) runs for an entry that ImportAll selected
BackfillEntry ==
    /\ tp = TpIdle
    /\ \E gid \in {g \in DOMAIN gallery : gallery[g].root_gid = NULL /\ ~gallery[g].removed},
          page \in TorrentPages :
         \E db \in DbFaults(page), old \in BOOLEAN :
           LET r == processGallery(gallery, torrent, gid, page, db, old)
           IN  /\ gallery' = r.gallery
               /\ torrent' = r.torrent
               /\ tp' = [pass |-> "backfill", gid |-> gid, page |-> page, old |-> old,
                         db |-> db, err |-> r.err]
    /\ UNCHANGED <<imp, mk, rt, pg, listing, cancelled, sched, bt, tsync, run>>

\* processTorrentsForGallery(gid) runs for an entry of the torrent listing
SyncEntry ==
    /\ tp = TpIdle
    /\ \E gid \in DOMAIN gallery, page \in TorrentPages :
         \E db \in DbFaults(page) :
           LET r == processTorrentsForGallery(gallery, torrent, gid, page, db)
           IN  /\ gallery' = r.gallery
               /\ torrent' = r.torrent
               /\ tp' = [pass |-> "sync", gid |-> gid, page |-> page, old |-> FALSE,
                         db |-> db, err |-> r.err]
    /\ UNCHANGED <<imp, mk, rt, pg, listing, cancelled, sched, bt, tsync, run>>

InitEntry ==
    /\ gallery \in EntryStores
    /\ torrent \in EntryTorrents
    /\ imp = ImpIdle
    /\ mk = MkIdle
    /\ rt = RtIdle
    /\ pg = PgIdle
    /\ listing = <<>>
    /\ cancelled = FALSE
    /\ bt = BtIdle
    /\ tsync = TsIdle
    /\ run = RunIdle
    /\ sched = SchedIdle
    /\ tp = TpIdle

NextEntry == BackfillEntry \/ SyncEntry

SpecEntry == InitEntry /\ [][NextEntry]_vars

-----------------------------------------------------------------------------
(* A run of TorrentCrawler.Sync *)

\* the torrents of the upstream listing, the items of one page of
\* torrents.php, the largest page limit configured
MaxGtid == 3
ListPageSize == 2
MaxPagesCfg == 3

\* TorrentListItem
TorrentListItem(gid, gtid) == [gid |-> gid, gtid |-> gtid]

\* the ids of a set, newest first
RECURSIVE Descending(_)
Descending(S) ==
    IF S = {} THEN <<>>
    ELSE LET m == CHOOSE x \in S : \A y \in S : y <= x
         IN  <<m>> \o Descending(S \ {m})

\* torrents.php lists the torrents newest first, each with its gallery
TorrentListings ==
    UNION {{[j \in DOMAIN Descending(S) |-> TorrentListItem(f[Descending(S)[j]], Descending(S)[j])] :
               f \in [S -> Gids]} : S \in SUBSET (1..MaxGtid)}

Min(a, b) == IF a < b THEN a ELSE b

\* fetchTorrentListPage(page)
fetchTorrentListPage(lst, page) ==
    SubSeq(lst, page * ListPageSize + 1, Min(Len(lst), (page + 1) * ListPageSize))

\* SELECT id FROM torrent ORDER BY id DESC LIMIT 1, 0 on an empty table
getLastTorrentID(rows) == IF rows = {} THEN 0 ELSE MaxOf({r.id : r \in rows})

getExistingTorrentIDs(rows) == {r.id : r \in rows}

\* a scan that stops at the stored maximum whatever the page limit
ShouldStopAnyLimit(maxPages, gtid, lastTorrentID) == gtid <= lastTorrentID

\* if c.maxPages == 0 && item.Gtid <= lastTorrentID
ShouldStop(maxPages, gtid, lastTorrentID) == maxPages = 0 /\ gtid <= lastTorrentID

\* the filter loop over a page's items, from item k: the items appended and
\* whether the loop set finished
RECURSIVE FilterItems(_, _, _, _, _, _)
FilterItems(pageItems, k, maxPages, lastTorrentID, existingIDs, items) ==
    IF k > Len(pageItems) THEN [items |-> items, finished |-> FALSE]
    ELSE IF ShouldStop(maxPages, pageItems[k].gtid, lastTorrentID)
    THEN [items |-> items, finished |-> TRUE]
    ELSE FilterItems(pageItems, k + 1, maxPages, lastTorrentID, existingIDs,
                     IF pageItems[k].gtid \in existingIDs THEN items
                     ELSE Append(items, pageItems[k]))

\* importMissingGalleries: the gidlist, in the order of the items
RECURSIVE MissingGidList(_, _, _, _)
MissingGidList(items, missingGids, k, gidlist) ==
    IF k > Len(items) THEN gidlist
    ELSE MissingGidList(items, missingGids, k + 1,
                        IF /\ items[k].gid \in missingGids
                           /\ \A j \in DOMAIN gidlist : gidlist[j] # items[k].gid
                        THEN Append(gidlist, items[k].gid) ELSE gidlist)

\* UPDATE gallery SET bytorrent = true WHERE gid = ANY($1)
markGalleriesByTorrent(store, gids) ==
    [g \in DOMAIN store |->
        IF g \in gids THEN [store[g] EXCEPT !.bytorrent = TRUE] ELSE store[g]]

\* the torrent pages and store failures of a run: no expunged torrents (the
\* sync pass does not parse them), the failure of the second upsert
SyncPages == {p \in TorrentPages : p.expunged = {} /\ p.kind # "unavailable, not found"}
SyncFaults(page) == IF page.kind = "torrents" THEN {"none", "save"} ELSE {"none"}

\* Sync starts: the stored maximum torrent id and the stored ids are read (a
\* failure of either read ends the run).
TorrentSyncStart ==
    /\ tsync.pc = "idle"
    /\ \E maxPages \in 0..MaxPagesCfg, retryTimes \in BatchRetryTimes, readOk \in BOOLEAN :
         tsync' = [pc |-> IF readOk THEN "fetch" ELSE "done",
                   ret |-> IF readOk THEN "" ELSE "error",
                   maxPages |-> maxPages, max |-> EffectiveRetries(retryTimes), attempt |-> 0,
                   lastTorrentID |-> getLastTorrentID(torrent),
                   existingIDs |-> getExistingTorrentIDs(torrent),
                   page |-> 0, items |-> <<>>, fetched |-> 0, stop |-> "",
                   todo |-> {}, cur |-> 0, touched |-> {}]
    /\ UNCHANGED <<gallery, torrent, imp, mk, rt, pg, listing, cancelled, sched, tp, bt, run>>

\* One turn of the page loop: Retry(fetchTorrentListPage(page)) (ok says that
\* it returned a page), the filter loop, page++, the page limit, the sleep.
TorrentSyncPage ==
    /\ tsync.pc = "fetch"
    /\ \E ok \in BOOLEAN :
         LET pageItems == fetchTorrentListPage(listing, tsync.page)
             f == FilterItems(pageItems, 1, tsync.maxPages, tsync.lastTorrentID,
                              tsync.existingIDs, tsync.items)
             got == [tsync EXCEPT !.fetched = @ + 1]
         IN  tsync' =
               IF ~ok THEN [tsync EXCEPT !.pc = "done", !.ret = "error", !.stop = "error"]
               ELSE IF Len(pageItems) = 0
               THEN [got EXCEPT !.pc = "group", !.stop = "empty"]
               ELSE IF tsync.maxPages > 0 /\ tsync.page + 1 >= tsync.maxPages
               THEN [got EXCEPT !.pc = "group", !.stop = "limit", !.items = f.items,
                                !.page = @ + 1]
               ELSE IF f.finished
               THEN [got EXCEPT !.pc = "group", !.stop = "threshold", !.items = f.items,
                                !.page = @ + 1]
               ELSE [got EXCEPT !.items = f.items, !.page = @ + 1]
    /\ UNCHANGED <<gallery, torrent, imp, mk, rt, pg, listing, cancelled, sched, tp, bt, run>>

\* After the page loop: no items ends the run; else the galleries of the
\* items are looked up (readOk) and the missing ones imported: fetched are
\* those whose metadata a batch returned without an error field, importOk says
\* that Import returned nil, markOk that the bytorrent update succeeded.
TorrentSyncGroup ==
    /\ tsync.pc = "group"
    /\ \E readOk, importOk, markOk \in BOOLEAN :
         LET gids == {tsync.items[j].gid : j \in DOMAIN tsync.items}
             missingGids == gids \ DOMAIN gallery
         IN  \E fetched \in SUBSET missingGids :
               LET gidlist == MissingGidList(tsync.items, missingGids, 1, <<>>)
                   allMetadata == GetMetadatas(SelectSeq(gidlist, LAMBDA g : g \in fetched))
                   imported == Import(gallery, allMetadata, FALSE)
               IN  IF Len(tsync.items) = 0
                   THEN /\ readOk /\ importOk /\ markOk /\ fetched = {}
                        /\ gallery' = gallery
                        /\ tsync' = [tsync EXCEPT !.pc = "done", !.ret = "ok"]
                   ELSE IF ~readOk
                   THEN /\ importOk /\ markOk /\ fetched = {}
                        /\ gallery' = gallery
                        /\ tsync' = [tsync EXCEPT !.pc = "done", !.ret = "error"]
                   ELSE IF missingGids = {}
                   THEN /\ importOk /\ markOk
                        /\ gallery' = gallery
                        /\ tsync' = [tsync EXCEPT !.pc = "process", !.todo = gids]
                   ELSE IF ~importOk
                   THEN /\ markOk /\ fetched = {}
                        /\ gallery' = gallery
                        /\ tsync' = [tsync EXCEPT !.pc = "done", !.ret = "error"]
                   ELSE /\ gallery' = IF markOk THEN markGalleriesByTorrent(imported, gids)
                                      ELSE imported
                        /\ tsync' = [tsync EXCEPT !.pc = "process", !.todo = gids]
    /\ UNCHANGED <<torrent, imp, mk, rt, pg, listing, cancelled, sched, tp, bt, run>>

\* The body of the loop over gidMap for one gallery (a Go map is ranged over
\* in any order): an attempt of Retry(processTorrentsForGallery).  After an
\* error the same gallery is tried again while attempts are left; the last
\* error is logged and the loop continues.
TorrentSyncProcess ==
    /\ tsync.pc = "process"
    /\ \E gid \in tsync.todo, page \in SyncPages :
         \E db \in SyncFaults(page) :
           LET r == processTorrentsForGallery(gallery, torrent, gid, page, db)
               touches == r.gallery # gallery \/ r.torrent # torrent
               again == r.err /\ tsync.attempt < tsync.max - 1
           IN  /\ tsync.attempt > 0 => gid = tsync.cur
               /\ gallery' = r.gallery
               /\ torrent' = r.torrent
               /\ tsync' = [tsync EXCEPT !.todo = IF again THEN @ ELSE @ \ {gid},
                                         !.attempt = IF again THEN @ + 1 ELSE 0,
                                         !.cur = gid,
                                         !.touched = IF touches THEN @ \cup {page.root}
                                                     ELSE @]
    /\ UNCHANGED <<imp, mk, rt, pg, listing, cancelled, sched, tp, bt, run>>

\* every gallery of gidMap has been processed: return nil
TorrentSyncFinish ==
    /\ tsync.pc = "process"
    /\ tsync.todo = {}
    /\ tsync' = [tsync EXCEPT !.pc = "done", !.ret = "ok"]
    /\ UNCHANGED <<gallery, torrent, imp, mk, rt, pg, listing, cancelled, sched, tp, bt, run>>

\* the stores a run starts from: every entry alone in its group
TorrentSyncStores ==
    {EmptyGallery} \cup
    {[g \in D |-> GalleryRow(1, "a", FALSE, FALSE, NULL, FALSE)] : D \in {{1}, {1, 2}}}

InitTorrentSync ==
    /\ gallery \in TorrentSyncStores
    /\ torrent \in EntryTorrents
    /\ imp = ImpIdle
    /\ mk = MkIdle
    /\ rt = RtIdle
    /\ pg = PgIdle
    /\ listing \in TorrentListings
    /\ cancelled = FALSE
    /\ sched = SchedIdle
    /\ tp = TpIdle
    /\ bt = BtIdle
    /\ tsync = TsIdle
    /\ run = RunIdle

NextTorrentSync ==
    \/ TorrentSyncStart
    \/ TorrentSyncPage
    \/ TorrentSyncGroup
    \/ TorrentSyncProcess
    \/ TorrentSyncFinish

SpecTorrentSync == InitTorrentSync /\ [][NextTorrentSync]_vars

-----------------------------------------------------------------------------
(* A run of TorrentImporter.ImportAll *)

\* a run that ends at the first entry that failed
AfterEntryFailureAbort(gid) == "abort"

\* if err != nil { logger.Error(...) } else { succeeded++ }; processed++
AfterEntryFailure(gid) == "continue"

\* WHERE root_gid IS NULL AND removed = false
Selected(row) == row.root_gid = NULL /\ ~row.removed

\* time.Sleep(2 * time.Second)
ItemDelay == 2

\* ti.retryTimes
BackfillRetryTimes == {1, 2}

\* ImportAll starts: the entries are selected in ascending gid order; a
\* failure of the query ends the run with an error.
ImportAllStart ==
    /\ run.pc = "idle"
    /\ \E queryOk \in BOOLEAN, retryTimes \in BackfillRetryTimes :
         run' = [pc |-> IF queryOk THEN "loop" ELSE "done", wf |-> "backfill",
                 queryErr |-> ~queryOk,
                 galleries |-> IF queryOk
                               THEN Ascending({g \in DOMAIN gallery : Selected(gallery[g])})
                               ELSE <<>>,
                 store0 |-> gallery, idx |-> 1, attempt |-> 0,
                 max |-> EffectiveRetries(retryTimes), log |-> <<>>,
                 ret |-> IF queryOk THEN "" ELSE "error"]
    /\ UNCHANGED <<gallery, torrent, imp, mk, rt, pg, listing, cancelled, sched, tp, bt, tsync>>

\* An attempt of Retry(processGallery) for the next entry.  After an error the
\* entry is tried again while attempts are left; else the result is logged
\* and the loop goes to its sleep.
ImportAllAttempt ==
    /\ run.pc = "loop"
    /\ run.idx <= Len(run.galleries)
    /\ \E page \in TorrentPages, old \in BOOLEAN :
         \E db \in DbFaults(page) :
           LET gid == run.galleries[run.idx]
               r == processGallery(gallery, torrent, gid, page, db, old)
               result == [run EXCEPT !.log = Append(@, [ev |-> "process", gid |-> gid,
                                                        err |-> r.err, secs |-> 0])]
           IN  /\ gallery' = r.gallery
               /\ torrent' = r.torrent
               /\ run' = IF r.err /\ run.attempt < run.max - 1
                         THEN [run EXCEPT !.attempt = @ + 1]
                         ELSE IF r.err /\ AfterEntryFailure(gid) = "abort"
                         THEN [result EXCEPT !.pc = "done", !.ret = "error"]
                         ELSE [result EXCEPT !.pc = "sleep", !.attempt = 0]
    /\ UNCHANGED <<imp, mk, rt, pg, listing, cancelled, sched, tp, bt, tsync>>

\* the sleep after an entry, then the next entry
ImportAllSleepDone ==
    /\ run.pc = "sleep"
    /\ run' = [run EXCEPT !.pc = "loop", !.idx = @ + 1,
                          !.log = Append(@, [ev |-> "sleep", gid |-> run.galleries[run.idx],
                                             err |-> FALSE, secs |-> ItemDelay])]
    /\ UNCHANGED <<gallery, torrent, imp, mk, rt, pg, listing, cancelled, sched, tp, bt, tsync>>

\* after the last entry: return nil
ImportAllFinish ==
    /\ run.pc = "loop"
    /\ run.idx > Len(run.galleries)
    /\ run' = [run EXCEPT !.pc = "done", !.ret = "ok"]
    /\ UNCHANGED <<gallery, torrent, imp, mk, rt, pg, listing, cancelled, sched, tp, bt, tsync>>

\* the stores a run starts from
ImportAllStores ==
    [Gids -> {GalleryRow(1, "a", removed, FALSE, root, FALSE) :
                 removed \in BOOLEAN, root \in {NULL, 1}}]

InitImportAll ==
    /\ gallery \in ImportAllStores
    /\ torrent = {}
    /\ imp = ImpIdle
    /\ mk = MkIdle
    /\ rt = RtIdle
    /\ pg = PgIdle
    /\ listing = <<>>
    /\ cancelled = FALSE
    /\ sched = SchedIdle
    /\ tp = TpIdle
    /\ bt = BtIdle
    /\ tsync = TsIdle
    /\ run = RunIdle

NextImportAll ==
    ImportAllStart \/ ImportAllAttempt \/ ImportAllSleepDone \/ ImportAllFinish

SpecImportAll == InitImportAll /\ [][NextImportAll]_vars

-----------------------------------------------------------------------------
(* Claims about torrent pages *)

RowsWith(hash, gid) == {r \in torrent : r.hash = hash /\ r.gid = gid}

\* C9: a torrent (a content hash in a root group) that the pages of two or
\* more passes have listed, by either kind of pass, has exactly one stored row
\* with that hash in that group.
C9_TorrentDedup ==
    \A p \in DOMAIN tp.seen :
        tp.seen[p] = 2 => Cardinality(RowsWith(p[1], p[2])) = 1

\* The dedup holds for the pairs that no page has listed under two ids: the
\* filter compares a page's torrents with the hashes stored before the pass,
\* not with one another.
DedupWhenListedOnce ==
    /\ \A r \in torrent :
          <<r.hash, r.gid>> \notin tp.dup => Cardinality(RowsWith(r.hash, r.gid)) = 1
    /\ \A p \in DOMAIN tp.seen :
          (tp.seen[p] >= 1 /\ p \notin tp.dup) => Cardinality(RowsWith(p[1], p[2])) = 1

\* a step in which processGallery ran for an entry
BackfillStep == tp = TpIdle /\ tp' # TpIdle /\ tp'.pass = "backfill"

Removed(store) == [g \in DOMAIN store |-> store[g].removed]

\* C14: processGallery on a page with the unavailable banner (with or
\* without the not-found banner), or with the not-found banner for an entry
\* older than 7 days, sets removed = true for the entry and nothing else; with
\* the not-found banner for a younger entry it changes nothing and returns an
\* error, the entry staying selectable; on any other page fetched it sets the
\* entry's root_gid, to the announce id or to its own gid, and no removed
\* flag.  (Each unless the store fails.)
C14_PageClassification ==
    [][BackfillStep =>
          LET p == tp'.page
              g == tp'.gid
              unavailable == p.kind \in {"unavailable", "unavailable, not found"}
              notFound == p.kind = "not found"
          IN  /\ (unavailable \/ (notFound /\ tp'.old)) =>
                    /\ torrent' = torrent
                    /\ tp'.db = "none" =>
                          /\ gallery' = [gallery EXCEPT ![g].removed = TRUE]
                          /\ ~tp'.err
              /\ (notFound /\ ~tp'.old) =>
                    /\ gallery' = gallery /\ torrent' = torrent
                    /\ tp'.err
                    /\ gallery'[g].root_gid = NULL /\ ~gallery'[g].removed
              /\ p.kind = "no announce" =>
                    /\ torrent' = torrent
                    /\ tp'.db = "none" =>
                          /\ gallery' = [gallery EXCEPT ![g].root_gid = g]
                          /\ ~tp'.err
              /\ p.kind = "torrents" =>
                    /\ Removed(gallery') = Removed(gallery)
                    /\ tp'.db = "none" =>
                          /\ gallery'[g].root_gid = p.root
                          /\ \A x \in DOMAIN gallery \ {g} :
                                gallery'[x].root_gid = gallery[x].root_gid
                          /\ ~tp'.err
      ]_vars

\* C14's case: a page with both banners for a young entry marked it removed
C14_Witness ==
    /\ tp # TpIdle /\ tp.pass = "backfill"
    /\ tp.page.kind = "unavailable, not found" /\ ~tp.old
    /\ gallery[tp.gid].removed /\ gallery[tp.gid].root_gid = NULL /\ ~tp.err

\* C15: a torrent without a content hash on the page of a pass that ended
\* without error is stored afterwards, under the page's root, with no hash.
C15_HashlessStored ==
    [][(tp = TpIdle /\ tp' # TpIdle /\ ~tp'.err /\ tp'.page.kind = "torrents") =>
          \A t \in {Parsed(tp'.pass, tp'.page)[k] : k \in DOMAIN Parsed(tp'.pass, tp'.page)} :
              t.hash = NoHash =>
                 \E r \in torrent' : r.id = t.id /\ r.gid = t.gid /\ r.hash = NoHash
      ]_vars

\* the metadata of the batches of S, in the order of the batches
RECURSIVE MetadataOfBatches(_, _, _)
MetadataOfBatches(n, S, k) ==
    IF k > NumBatches(n) THEN <<>>
    ELSE (IF k \in S THEN GetMetadatas(BatchOf(n, k)) ELSE <<>>)
         \o MetadataOfBatches(n, S, k + 1)

\* C11: in each batched metadata loop, every batch is decided before the
\* Import call (a batch that failed after its last attempt does not end the
\* loop), the list collected so far is the metadata of the batches that
\* succeeded, in order, and that list is what Import is called with.
C11_BatchFailureIsolation ==
    bt.pc # "idle" =>
       /\ bt.allMetadata = MetadataOfBatches(bt.n, bt.succeeded, 1)
       /\ bt.succeeded \cap bt.failed = {}
       /\ bt.pc \in {"import", "done"} =>
             bt.succeeded \cup bt.failed = 1..NumBatches(bt.n)
       /\ bt.pc = "done" =>
             bt.handed = IF CallsImport(bt.loop, bt.allMetadata)
                         THEN MetadataOfBatches(bt.n, bt.succeeded, 1) ELSE NotHanded

\* C11's case: batch 1 of three failed after a retry, batches 2 and 3 were
\* fetched and their five-minus-two records handed to Import
C11_Witness ==
    /\ bt.pc = "done" /\ bt.n = 5 /\ bt.max = 2
    /\ bt.failed = {1} /\ bt.succeeded = {2, 3}
    /\ bt.handed = <<MetadataOf(3), MetadataOf(4), MetadataOf(5)>>

\* C20: between the bulk metadata calls of two different batches the loop has
\* slept its inter-batch delay.
C20_InterBatchDelay ==
    bt.pc # "idle" =>
       \A i, j \in DOMAIN bt.log :
          (i < j /\ bt.log[i].ev = "call" /\ bt.log[j].ev = "call"
                 /\ bt.log[i].batch # bt.log[j].batch) =>
             \E m \in (i + 1)..(j - 1) :
                bt.log[m].ev = "delay" /\ bt.log[m].secs = bt.delay

\* C12: in a TorrentSync run, torrents from the page of a gallery of the
\* listing are written only when that gallery has an entry in the store.
C12_GalleryBeforeTorrents ==
    [][(tsync.pc = "process" /\ torrent' # torrent) =>
           tsync'.cur \in DOMAIN gallery]_vars

\* C13: when a TorrentSync run has ended without error, in every group it
\* touched each member has replaced = (gid # the group's maximum gid).
C13_TouchedGroupsConsolidated ==
    (tsync.pc = "done" /\ tsync.ret = "ok") =>
       \A k \in tsync.touched :
          \A g \in Members(gallery, k) :
             gallery[g].replaced = (g # MaxOf(Members(gallery, k)))

\* the position in the listing of the first item at or below the stored
\* maximum id, 0 when there is none
FirstOld(lst, last) ==
    IF \E j \in DOMAIN lst : lst[j].gtid <= last
    THEN CHOOSE j \in DOMAIN lst :
            /\ lst[j].gtid <= last
            /\ \A i \in 1..(j - 1) : lst[i].gtid > last
    ELSE 0

\* the pages of a listing that hold items
FullPages(lst) == (Len(lst) + ListPageSize - 1) \div ListPageSize

\* C18: a page loop that ended without a fetch failure, with a page limit
\* N > 0, never stopped at the stored maximum: it fetched N pages that held
\* items, or fewer and then an empty page, and kept every item of them that is
\* not stored; with N = 0 it ended at the first item at or below the stored
\* maximum (keeping the items before it), or at the empty page when there is
\* no such item.
C18_PageLimitOverridesThreshold ==
    tsync.pc \in {"group", "process"} =>
       LET limit == tsync.maxPages
           old == FirstOld(listing, tsync.lastTorrentID)
           fresh(q) == SelectSeq(SubSeq(listing, 1, q),
                               LAMBDA it : it.gtid \notin tsync.existingIDs)
       IN  /\ limit > 0 =>
                /\ tsync.stop \in {"limit", "empty"}
                /\ tsync.stop = "limit" <=> limit <= FullPages(listing)
                /\ tsync.fetched = Min(limit, FullPages(listing) + 1)
                /\ tsync.items = fresh(Min(Len(listing), limit * ListPageSize))
           /\ limit = 0 =>
                /\ tsync.stop \in {"threshold", "empty"}
                /\ tsync.stop = "threshold" <=> old > 0
                /\ old > 0 =>
                      /\ tsync.fetched = (old - 1) \div ListPageSize + 1
                      /\ tsync.items = fresh(old - 1)
                /\ old = 0 =>
                      /\ tsync.fetched = FullPages(listing) + 1
                      /\ tsync.items = fresh(Len(listing))

\* C18's case: with a limit of three pages the item at the stored maximum on
\* the second page did not end the loop, which went on to the empty third page
C18_Witness ==
    /\ tsync.pc = "group" /\ tsync.maxPages = 3 /\ tsync.stop = "empty"
    /\ tsync.fetched = 3 /\ tsync.lastTorrentID = 1
    /\ Len(listing) = 3 /\ listing[3].gtid = 1
    /\ Len(tsync.items) = 2

\* C27: after processGallery has run for entry e on a page with root id R
\* (the store not failing), e has root_gid = R, every other entry with
\* root_gid = R has replaced = true, and the entries with root_gid = R that
\* have replaced = false are exactly the one with the largest gid.
C27_SiblingsMarked ==
    [][(BackfillStep /\ tp'.page.kind = "torrents" /\ tp'.db = "none") =>
          LET R == tp'.page.root
              e == tp'.gid
              group == {g \in DOMAIN gallery' : gallery'[g].root_gid = R}
          IN  /\ gallery'[e].root_gid = R
              /\ \A g \in group \ {e} : gallery'[g].replaced
              /\ {g \in group : ~gallery'[g].replaced} = {MaxOf(group)}
      ]_vars

RECURSIVE Concat(_, _)
Concat(seqs, k) == IF k > Len(seqs) THEN <<>> ELSE seqs[k] \o Concat(seqs, k + 1)

\* C22: when a batched loop reaches its Import call over a list of m pairs, it
\* has submitted ceil(m / BatchSize) batches, none larger than BatchSize and
\* all but the last of exactly that size, and the batches joined in the order
\* of submission are the list.
C22_BatchPartition ==
    bt.pc \in {"import", "done"} =>
       /\ Len(bt.batches) * BatchSize >= bt.n
       /\ (Len(bt.batches) - 1) * BatchSize < bt.n
       /\ \A k \in DOMAIN bt.batches :
             /\ Len(bt.batches[k]) >= 1 /\ Len(bt.batches[k]) <= BatchSize
             /\ k < Len(bt.batches) => Len(bt.batches[k]) = BatchSize
       /\ Concat(bt.batches, 1) = [j \in 1..bt.n |-> j]

\* C22's case: five pairs went out as batches of two, two and one
C22_Witness ==
    /\ bt.pc = "import" /\ bt.n = 5
    /\ bt.batches = <<(<<1, 2>>), (<<3, 4>>), (<<5>>)>>

\* C24: in a TorrentSync run, a listing-page fetch that failed after its
\* retries ends the page loop only: the run goes on to the galleries of the
\* items collected from the earlier pages and does not return an error.
C24_PageFailureLocal ==
    [][(tsync.pc = "fetch" /\ tsync'.stop = "error") =>
          /\ tsync'.pc = "group" /\ tsync'.ret # "error"
          /\ tsync'.items = tsync.items
      ]_vars

\* the gids of the log's events of a kind, in order
EventGids(log, ev) ==
    LET sel == SelectSeq(log, LAMBDA x : x.ev = ev)
    IN  [j \in DOMAIN sel |-> sel[j].gid]

=============================================================================
